---- MODULE Spec2Model ----
(***************************************************************************)
(* A model of the neo-go compiler's code generator (package compiler,      *)
(* codegen.go): label bookkeeping, the two-pass jump resolution            *)
(* (writeJumps / shortenJumps / calcOffsetCorrection) and the lowering of  *)
(* structured control flow to stack-machine code.                          *)
(*                                                                         *)
(* The program buffer is a sequence of bytes; address a of the Go slice b  *)
(* is element a+1 of the TLA+ sequence.                                    *)
(***************************************************************************)
EXTENDS Integers, Sequences, FiniteSets, TLC

VARIABLES
    items,      \* the instruction list handed to the emitter (input)
    prog,       \* c.prog: the program buffer as emitted, label placeholders
    l,          \* c.l: the label table
    funcs,      \* c.funcs[*].rng: the PC range of every emitted function
    resolved,   \* the buffer as pass 1 of writeJumps leaves it
    buf,        \* the byte slice CodeGen returns
    err,        \* the error CodeGen returns ("nil" when none)
    phase,      \* "parsed" before compile, "emitted" before writeJumps,
                \* "done" once CodeGen has returned
    decls,      \* the function declarations of the typed AST (input)
    cg,         \* the codegen structure c as compile leaves it
    vm,         \* the machine loaded with the bytes CodeGen returned
    cfg,        \* server and manifest packages: what the caller holds (the
                \* configuration, the command line, the chain; the manifests)
    frame,      \* the parameters and locals of the function that is running
    outStream   \* what has been written to the output stream

jumpVars == <<items, prog, l, funcs, resolved, buf, err, phase>>

hostVars == <<cfg, frame, outStream>>

vars == <<items, prog, l, funcs, resolved, buf, err, phase, decls, cg, vm,
          cfg, frame, outStream>>

\* one step after another: G on the codegen (or the result) v that the
\* step before it leaves
Then(v, G(_)) == CHOOSE r \in {G(y) : y \in {v}} : TRUE

\* the compiler and the machine are not part of the state
NoCompiler ==
    /\ items = <<>> /\ prog = <<>> /\ l = <<>> /\ funcs = <<>>
    /\ resolved = <<>> /\ buf = <<>> /\ decls = <<>>
    /\ cg = [Err |-> "nil"] /\ vm = [state |-> "NONE"]

compilerVars == <<items, prog, l, funcs, resolved, buf, decls, cg, vm>>

\* the server and manifest packages are not part of the state
NoHost == cfg = <<>> /\ frame = <<>> /\ outStream = <<>>

----------------------------------------------------------------------------
(* Opcodes (pkg/vm/opcode) and the instruction decoder (vm.Context.Next).  *)

opcode ==
    [PUSHINT8 |-> 0, PUSHA |-> 10, PUSHNULL |-> 11, PUSHDATA1 |-> 12,
     PUSH0 |-> 16, PUSHF |-> 16, PUSHT |-> 17, NOP |-> 33,
     JMP |-> 34, JMPL |-> 35, JMPIF |-> 36, JMPIFL |-> 37,
     JMPIFNOT |-> 38, JMPIFNOTL |-> 39, JMPEQ |-> 40, JMPEQL |-> 41,
     JMPNE |-> 42, JMPNEL |-> 43, JMPGT |-> 44, JMPGTL |-> 45,
     JMPGE |-> 46, JMPGEL |-> 47, JMPLT |-> 48, JMPLTL |-> 49,
     JMPLE |-> 50, JMPLEL |-> 51, CALL |-> 52, CALLL |-> 53, CALLA |-> 54,
     RET |-> 64, SYSCALL |-> 65, DROP |-> 69, DUP |-> 74, OVER |-> 75,
     PICKOP |-> 77, SWAP |-> 80, ROT |-> 81, REVERSE3 |-> 83,
     REVERSE4 |-> 84, REVERSEN |-> 85, INITSSLOT |-> 86, INITSLOT |-> 87,
     LDSFLD0 |-> 88, STSFLD0 |-> 96, LDLOC0 |-> 104, STLOC0 |-> 112,
     LDARG0 |-> 120, STARG0 |-> 128,
     NEWBUFFER |-> 136, CAT |-> 139, SUBSTR |-> 140,
     INVERT |-> 144, AND |-> 145, OR |-> 146, XOR |-> 147,
     EQUAL |-> 151, NOTEQUAL |-> 152, NEGATE |-> 155, INC |-> 156,
     DEC |-> 157, ADD |-> 158, SUB |-> 159, MUL |-> 160, DIV |-> 161,
     MOD |-> 162, SHL |-> 168, SHR |-> 169, NOT |-> 170,
     NUMEQUAL |-> 179, NUMNOTEQUAL |-> 180, LT |-> 181, LTE |-> 182,
     GT |-> 183, GTE |-> 184, PACK |-> 192, NEWARRAY0 |-> 194,
     NEWMAP |-> 200, SIZE |-> 202, KEYS |-> 204, PICKITEM |-> 206,
     APPEND |-> 207, SETITEM |-> 208, ISNULL |-> 216, CONVERT |-> 219]

\* the short-form branches and call of the first case list of writeJumps
ShortJumps ==
    {opcode.JMP, opcode.JMPIFNOT, opcode.JMPIF, opcode.CALL, opcode.JMPEQ,
     opcode.JMPNE, opcode.JMPGT, opcode.JMPGE, opcode.JMPLE, opcode.JMPLT}

\* the long-form branches, call and push-address of the second case list
LongJumps ==
    {opcode.JMPL, opcode.JMPIFL, opcode.JMPIFNOTL, opcode.JMPEQL,
     opcode.JMPNEL, opcode.JMPGTL, opcode.JMPGEL, opcode.JMPLEL,
     opcode.JMPLTL, opcode.CALLL, opcode.PUSHA}

\* number of operand bytes of the instruction at address ip
OperandLen(b, ip) ==
    LET op == b[ip + 1] IN
    IF op \in LongJumps THEN 4
    ELSE IF op \in ShortJumps THEN 1
    ELSE IF op = opcode.PUSHDATA1 THEN 1 + b[ip + 2]
    ELSE IF op = opcode.SYSCALL THEN 4
    ELSE IF op = opcode.INITSLOT THEN 2
    ELSE IF op \in {opcode.PUSHINT8, opcode.CONVERT, opcode.INITSSLOT,
                    opcode.LDSFLD0 + 7,
                    opcode.STSFLD0 + 7, opcode.LDLOC0 + 7, opcode.STLOC0 + 7,
                    opcode.LDARG0 + 7, opcode.STARG0 + 7} THEN 1
    ELSE 0

\* ctx.NextIP() once ctx.Next() has decoded the instruction at ip
NextIP(b, ip) == ip + 1 + OperandLen(b, ip)

\* the addresses ctx.IP() takes while the decoding loops of writeJumps and
\* shortenJumps run over b
RECURSIVE InstrStarts(_, _)
InstrStarts(b, ip) ==
    IF ip >= Len(b) THEN <<>> ELSE <<ip>> \o InstrStarts(b, NextIP(b, ip))

----------------------------------------------------------------------------
(* Fixed-width integers (encoding/binary, Go conversions).                 *)

MaxInt32 == 2147483647

MinInt32 == -MaxInt32 - 1

MinInt8 == -128

MaxInt8 == 127

\* the low seven bits of x
ToByteLow7(x) == x % 128

\* byte(x)
ToByte(x) == x % 256

\* uint16(x)
ToUint16(x) == x % 65536

\* int(int8(x)) of a byte
ToInt8(x) == IF x >= 128 THEN x - 256 ELSE x

\* binary.LittleEndian.Uint16(b[a:])
Uint16At(b, a) == b[a + 1] + 256 * b[a + 2]

\* int(int32(binary.LittleEndian.Uint32(b[a:]))): the top byte carries the sign
Int32At(b, a) ==
    b[a + 1] + 256 * b[a + 2] + 65536 * b[a + 3] + 16777216 * ToInt8(b[a + 4])

\* the bytes of x with the most significant first
PutUint32BigEndian(b, a, x) ==
    [b EXCEPT ![a + 4] = x % 256,
              ![a + 3] = (x \div 256) % 256,
              ![a + 2] = (x \div 65536) % 256,
              ![a + 1] = (x \div 16777216) % 256]

\* binary.LittleEndian.PutUint32(b[a:], uint32(x)) for an x of the int32
\* range: the two's complement bytes of x (\div rounds down)
PutUint32(b, a, x) ==
    [b EXCEPT ![a + 1] = x % 256,
              ![a + 2] = (x \div 256) % 256,
              ![a + 3] = (x \div 65536) % 256,
              ![a + 4] = (x \div 16777216) % 256]

\* binary.LittleEndian.PutUint16 into a fresh 4-byte operand (emit.Jmp)
LabelOperand(label) == <<label % 256, (label \div 256) % 256, 0, 0>>

----------------------------------------------------------------------------
(* Pass 1 and pass 2 of the jump resolution.                               *)

\* longToShortRemoveCount: difference between long and short instruction sizes
longToShortRemoveCount == 3

\* isShortCandidate with the lower bound excluded
isShortCandidateAboveMin(op, offset) ==
    op # opcode.PUSHA /\ MinInt8 < offset /\ offset <= MaxInt8

\* the candidate test of pass 1: a long branch or call, not a push-address,
\* whose offset fits a signed byte
isShortCandidate(op, offset) ==
    op # opcode.PUSHA /\ MinInt8 <= offset /\ offset <= MaxInt8

\* the range test of pass 1 on the offset
offsetTooBig(offset) == offset > MaxInt32 \/ offset < MinInt32

\* the loop of writeJumps over the instructions of b from address ip on.
\* st: "nil", or the error returned, or "panic" for the index expression
\* c.l[index] evaluated with index = len(c.l)
RECURSIVE resolveLabels(_, _, _, _)
resolveLabels(b, lt, ip, offsets) ==
    IF ip >= Len(b) THEN [b |-> b, offsets |-> offsets, st |-> "nil"]
    ELSE
      LET op     == b[ip + 1]
          nextIP == NextIP(b, ip)
      IN
      IF op \notin LongJumps THEN resolveLabels(b, lt, nextIP, offsets)
      ELSE
        LET index == Uint16At(b, nextIP - 4) IN
        IF index > Len(lt)
        THEN [b |-> b, offsets |-> offsets, st |-> "unexpected label number"]
        ELSE IF index = Len(lt)
        THEN [b |-> b, offsets |-> offsets, st |-> "panic"]
        ELSE
          LET offset == lt[index + 1] - nextIP + 5 IN
          IF offsetTooBig(offset)
          THEN [b |-> b, offsets |-> offsets, st |-> "label offset is too big"]
          ELSE resolveLabels(PutUint32(b, nextIP - 4, offset), lt, nextIP,
                             IF isShortCandidate(op, offset)
                             THEN Append(offsets, ip) ELSE offsets)

\* the inner loop of "Correct function ip range" for one function: rng is
\* updated in place while the candidates from index i on are visited
RECURSIVE correctRange(_, _, _)
correctRange(rng, offsets, i) ==
    IF i > Len(offsets) THEN rng
    ELSE
      LET ind == offsets[i] IN
      IF ind > rng.End THEN rng
      ELSE IF ind < rng.Start
      THEN correctRange([Start |-> ToUint16(rng.Start - longToShortRemoveCount),
                         End   |-> ToUint16(rng.End - longToShortRemoveCount)],
                        offsets, i + 1)
      ELSE correctRange([rng EXCEPT
                            !.End = ToUint16(rng.End - longToShortRemoveCount)],
                        offsets, i + 1)

\* sort.Search(n, f) for f(i) == offsets[i] >= ip || offsets[i] >= target
\* (0-based i, j as in the Go binary search)
RECURSIVE searchStart(_, _, _, _, _)
searchStart(offsets, ip, target, i, j) ==
    IF i >= j THEN i
    ELSE
      LET h == (i + j) \div 2 IN
      IF ~(offsets[h + 1] >= ip \/ offsets[h + 1] >= target)
      THEN searchStart(offsets, ip, target, h + 1, j)
      ELSE searchStart(offsets, ip, target, i, h)

\* crosses without the forward jump's own shrinkage
crossesAfterJump(ip, target, ind) ==
    \/ ip < ind /\ ind < target
    \/ ind # ip /\ target <= ind /\ ind <= ip

\* the test that adds a candidate at ind to the correction of a jump at ip
crosses(ip, target, ind) ==
    \/ ip <= ind /\ ind < target
    \/ ind # ip /\ target <= ind /\ ind <= ip

\* the counting loop of calcOffsetCorrection from 0-based index i on
RECURSIVE countCrossed(_, _, _, _)
countCrossed(ip, target, offsets, i) ==
    IF i < Len(offsets) /\ (offsets[i + 1] < target \/ offsets[i + 1] <= ip)
    THEN (IF crosses(ip, target, offsets[i + 1])
          THEN longToShortRemoveCount ELSE 0)
         + countCrossed(ip, target, offsets, i + 1)
    ELSE 0

calcOffsetCorrection(ip, target, offsets) ==
    LET cnt == countCrossed(ip, target, offsets,
                            searchStart(offsets, ip, target, 0, Len(offsets)))
    IN  IF ip < target THEN -cnt ELSE cnt

\* toShortForm with the two conditional forms confused
toShortFormSwapped(op) ==
    CASE op = opcode.JMPL      -> opcode.JMP
      [] op = opcode.JMPIFL    -> opcode.JMPIF
      [] op = opcode.JMPIFNOTL -> opcode.JMPIF
      [] op = opcode.JMPEQL    -> opcode.JMPEQ
      [] op = opcode.JMPNEL    -> opcode.JMPNE
      [] op = opcode.JMPGTL    -> opcode.JMPGT
      [] op = opcode.JMPGEL    -> opcode.JMPGE
      [] op = opcode.JMPLEL    -> opcode.JMPLE
      [] op = opcode.JMPLTL    -> opcode.JMPLT
      [] op = opcode.CALLL     -> opcode.CALL

toShortForm(op) ==
    CASE op = opcode.JMPL      -> opcode.JMP
      [] op = opcode.JMPIFL    -> opcode.JMPIF
      [] op = opcode.JMPIFNOTL -> opcode.JMPIFNOT
      [] op = opcode.JMPEQL    -> opcode.JMPEQ
      [] op = opcode.JMPNEL    -> opcode.JMPNE
      [] op = opcode.JMPGTL    -> opcode.JMPGT
      [] op = opcode.JMPGEL    -> opcode.JMPGE
      [] op = opcode.JMPLEL    -> opcode.JMPLE
      [] op = opcode.JMPLTL    -> opcode.JMPLT
      [] op = opcode.CALLL     -> opcode.CALL

\* step 1 of shortenJumps: alter the offset of every jump from address ip on
RECURSIVE alterOffsets(_, _, _)
alterOffsets(b, offsets, ip) ==
    IF ip >= Len(b) THEN b
    ELSE
      LET op     == b[ip + 1]
          nextIP == NextIP(b, ip)
      IN
      IF op \in ShortJumps THEN
        LET offset == ToInt8(b[nextIP])
            new    == offset + calcOffsetCorrection(ip, ip + offset, offsets)
        IN  alterOffsets([b EXCEPT ![nextIP] = ToByte(new)], offsets, nextIP)
      ELSE IF op \in LongJumps THEN
        LET offset == Int32At(b, nextIP - 4)
            new    == offset + calcOffsetCorrection(ip, ip + offset, offsets)
        IN  alterOffsets(PutUint32(b, nextIP - 4, new), offsets, nextIP)
      ELSE alterOffsets(b, offsets, nextIP)

\* copy(b[dst:], b[from:to]) of Go: as many bytes as both slices hold, moved
\* as if through a temporary buffer
copyBytes(b, dst, from, to) ==
    LET n == IF to - from < Len(b) - dst THEN to - from ELSE Len(b) - dst IN
    [k \in 1..Len(b) |->
        IF dst < k /\ k <= dst + n THEN b[k - dst + from] ELSE b[k]]

\* step 2 of shortenJumps: iteration i (0-based) of the conversion loop
RECURSIVE convertInstructions(_, _, _, _)
convertInstructions(b, offsets, i, copyOffset) ==
    IF i >= Len(offsets) THEN SubSeq(b, 1, Len(b) - copyOffset)
    ELSE
      LET start == offsets[i + 1] + 2
          last  == i = Len(offsets) - 1
          end   == IF last THEN Len(b) ELSE offsets[i + 2] + 2
          b1    == IF last THEN b
                   ELSE [b EXCEPT ![offsets[i + 2] + 1] =
                                      toShortForm(b[offsets[i + 2] + 1])]
      IN  convertInstructions(
              copyBytes(b1, start - copyOffset, start + 3, end),
              offsets, i + 1, copyOffset + longToShortRemoveCount)

shortenJumps(b, offsets) ==
    IF Len(offsets) = 0 THEN b
    ELSE
      LET b1 == alterOffsets(b, offsets, 0)
          b2 == [b1 EXCEPT ![offsets[1] + 1] = toShortForm(b1[offsets[1] + 1])]
      IN  convertInstructions(b2, offsets, 0, 0)

\* writeJumps(b) with the label table lt and the function ranges fs
writeJumps(b, lt, fs) ==
    LET p1 == resolveLabels(b, lt, 0, <<>>) IN
    IF p1.st # "nil"
    THEN [buf |-> <<>>, err |-> p1.st, resolved |-> p1.b, funcs |-> fs]
    ELSE [buf      |-> shortenJumps(p1.b, p1.offsets),
          err      |-> "nil",
          resolved |-> p1.b,
          funcs    |-> [f \in 1..Len(fs) |-> correctRange(fs[f], p1.offsets, 1)]]

----------------------------------------------------------------------------
(* The emitter (pkg/vm/emit) and the programs handed to writeJumps.        *)
(* An input is a list of items, one per emitted instruction or builtin.    *)

MaxInstr == 4

MaxLayout == 6

ItemOp(op)     == [k |-> "op", op |-> op, t |-> "none"]
ItemBytes(n)   == [k |-> "bytes", op |-> n, t |-> "none"]
ItemJmp(op, t) == [k |-> "jmp", op |-> op, t |-> t]
ItemLen        == [k |-> "len", op |-> 0, t |-> "none"]
ItemRet        == [k |-> "ret", op |-> opcode.RET, t |-> "none"]

\* lengths of the byte strings pushed between the jumps
DataLens == {120, 125}

\* where the label of a jump is set: at the jump itself, at the instruction
\* after it, at the first instruction, at the final return, or nowhere: the
\* label of a function literal is set when convertFuncDecl reaches it in
\* "for _, f := range c.lambda", and a literal that newLambda adds to the map
\* while that loop runs may be skipped by it before the map is replaced
Targets == {"self", "next", "start", "end", "unset"}

JumpItems ==
    {ItemJmp(opcode.JMPL, t) : t \in Targets \ {"unset"}}
        \cup {ItemJmp(opcode.JMPIFNOTL, "end"), ItemJmp(opcode.CALLL, "start")}
        \cup {ItemJmp(opcode.PUSHA, t) : t \in {"next", "end", "unset"}}

\* one function, any instructions
FreeItems ==
    {ItemOp(opcode.NOP), ItemLen} \cup {ItemBytes(n) : n \in DataLens}
        \cup JumpItems

\* several functions of short branches
LayoutItems == {ItemOp(opcode.NOP), ItemRet, ItemJmp(opcode.JMPIFNOTL, "next")}

Programs ==
    UNION {[1..n -> FreeItems] : n \in 1..MaxInstr}
        \cup UNION {[1..n -> LayoutItems] : n \in 1..MaxLayout}

\* convertFuncDecl appends the trailing return of the last function
Closed(its) ==
    IF its[Len(its)].k = "ret" THEN its ELSE Append(its, ItemRet)

ItemSize(it) ==
    CASE it.k = "op"    -> 1
      [] it.k = "ret"   -> 1
      [] it.k = "bytes" -> 2 + it.op
      [] it.k = "jmp"   -> 5
      [] it.k = "len"   -> 7

\* c.prog.Len() before item i is emitted
RECURSIVE AddrOf(_, _)
AddrOf(its, i) == IF i = 1 THEN 0 ELSE AddrOf(its, i - 1) + ItemSize(its[i - 1])

\* the label newLabel returns for the jump item i: the number of labels
\* created before it
LabelOf(its, i) == Cardinality({j \in 1..(i - 1) : its[j].k = "jmp"})

\* emit.Opcode, emit.Bytes, emit.Jmp / emit.Call / emit.Instruction(PUSHA)
\* and the code of the builtin len
ItemBytesOf(its, i) ==
    LET it == its[i] IN
    CASE it.k = "op"    -> <<it.op>>
      [] it.k = "ret"   -> <<opcode.RET>>
      [] it.k = "bytes" -> <<opcode.PUSHDATA1, it.op>> \o [j \in 1..it.op |-> 0]
      [] it.k = "jmp"   -> <<it.op>> \o LabelOperand(LabelOf(its, i))
      [] it.k = "len"   -> <<opcode.DUP, opcode.ISNULL, opcode.JMPIF, 2 + 1 + 2,
                             opcode.SIZE, opcode.JMP, 2 + 1 + 1>>

RECURSIVE Emitted(_, _)
Emitted(its, n) ==
    IF n = 0 THEN <<>> ELSE Emitted(its, n - 1) \o ItemBytesOf(its, n)

\* the value setLabel stores for the label of jump item i (-1: never set)
LabelValue(its, i) ==
    CASE its[i].t = "self"  -> AddrOf(its, i)
      [] its[i].t = "next"  -> AddrOf(its, i + 1)
      [] its[i].t = "start" -> 0
      [] its[i].t = "end"   -> AddrOf(its, Len(its))
      [] its[i].t = "unset" -> -1

JumpIndexes(its) == {i \in 1..Len(its) : its[i].k = "jmp"}

\* index of the n-th jump item
NthJump(its, n) == CHOOSE i \in JumpIndexes(its) : LabelOf(its, i) = n - 1

Labels(its) ==
    [n \in 1..Cardinality(JumpIndexes(its)) |-> LabelValue(its, NthJump(its, n))]

RetIndexes(its) == {i \in 1..Len(its) : its[i].k = "ret"}

\* index of the n-th return item
NthRet(its, n) ==
    CHOOSE i \in RetIndexes(its) :
        Cardinality({j \in RetIndexes(its) : j < i}) = n - 1

\* f.rng of the n-th function: Start is c.prog.Len() on entry, End the
\* address of its trailing return
Ranges(its) ==
    [n \in 1..Cardinality(RetIndexes(its)) |->
        [Start |-> IF n = 1 THEN 0 ELSE AddrOf(its, NthRet(its, n - 1) + 1),
         End   |-> AddrOf(its, NthRet(its, n))]]

----------------------------------------------------------------------------
(* CodeGen on an emitted program: the call of writeJumps.                  *)

InitJumps ==
    /\ items \in {Closed(p) : p \in Programs}
    /\ prog = Emitted(items, Len(items))
    /\ l = Labels(items)
    /\ funcs = Ranges(items)
    /\ resolved = <<>>
    /\ buf = <<>>
    /\ err = "nil"
    /\ phase = "emitted"
    /\ decls = <<>>
    /\ cg = [Err |-> "nil"]
    /\ vm = [state |-> "NONE"]
    /\ NoHost

WriteJumps ==
    /\ phase = "emitted"
    /\ \E r \in {Then(prog, LAMBDA b : writeJumps(b, l, funcs))} :
         /\ buf' = r.buf
         /\ err' = r.err
         /\ resolved' = r.resolved
         /\ funcs' = r.funcs
    /\ phase' = "done"
    /\ UNCHANGED <<items, prog, l, decls, cg, vm>>
    /\ UNCHANGED hostVars

NextJumps == WriteJumps

SpecJumps == InitJumps /\ [][NextJumps]_vars

----------------------------------------------------------------------------
(* Reading a resolved program: used by the properties below.               *)

IsJump(op) == op \in ShortJumps \/ op \in LongJumps

\* the address the jump at ip of b addresses: offsets count from the
\* address of the jump itself
JumpTarget(b, ip) ==
    IF b[ip + 1] \in ShortJumps
    THEN ip + ToInt8(b[ip + 2])
    ELSE ip + Int32At(b, ip + 1)

\* the long branches and calls pass 1 resolved to an offset of the signed
\* 8-bit range, by address in the resolved buffer
FitsInt8(b) ==
    LET starts == InstrStarts(b, 0) IN
    {ip \in {starts[k] : k \in 1..Len(starts)} :
        /\ b[ip + 1] \in LongJumps \ {opcode.PUSHA}
        /\ Int32At(b, ip + 1) >= -128
        /\ Int32At(b, ip + 1) <= 127}

\* the short-form opcode of each long-form branch and call
ShortFormOf ==
    [JMPL |-> "JMP", JMPIFL |-> "JMPIF", JMPIFNOTL |-> "JMPIFNOT",
     JMPEQL |-> "JMPEQ", JMPNEL |-> "JMPNE", JMPGTL |-> "JMPGT",
     JMPGEL |-> "JMPGE", JMPLEL |-> "JMPLE", JMPLTL |-> "JMPLT",
     CALLL |-> "CALL"]

IsShortFormOf(short, long) ==
    \E n \in DOMAIN ShortFormOf : opcode[n] = long /\ opcode[ShortFormOf[n]] = short

Returned == phase = "done" /\ err = "nil"

\* the label of the long jump at address ip had been set when pass 1 ran
LabelWasSet(ip) == l[Uint16At(prog, ip + 1) + 1] # -1

\* C2: jump shortening preserves every branch target: the output decodes to
\* as many instructions as the resolved input, and every branch, call and
\* push-address that addressed the m-th instruction addresses the m-th
\* instruction of the output.
C2_TargetsPreserved ==
    Returned =>
        LET S == InstrStarts(resolved, 0)
            T == InstrStarts(buf, 0)
        IN  /\ Len(S) = Len(T)
            /\ \A k \in 1..Len(S) :
                 IsJump(resolved[S[k] + 1]) =>
                     /\ IsJump(buf[T[k] + 1])
                     /\ \A m \in 1..Len(S) :
                          JumpTarget(resolved, S[k]) = S[m]
                              => JumpTarget(buf, T[k]) = T[m]

\* C2 witness: a long jump that is not shortened itself, jumps backward over
\* a shortened one and has had its offset altered.
C2_Witness ==
    /\ Returned
    /\ LET S == InstrStarts(resolved, 0)
           T == InstrStarts(buf, 0)
       IN  \E k \in 1..Len(S) :
             /\ resolved[S[k] + 1] \in LongJumps
             /\ buf[T[k] + 1] = resolved[S[k] + 1]
             /\ Int32At(resolved, S[k] + 1) < 0
             /\ Int32At(buf, T[k] + 1) # Int32At(resolved, S[k] + 1)
             /\ \E m \in 1..Len(S) : JumpTarget(resolved, S[k]) = S[m]

\* C5: in the output of writeJumps exactly the long branches and calls whose
\* pass-1 offset is in the signed 8-bit range are in short form with a
\* one-byte operand; every other instruction keeps its opcode; the output
\* is 3 bytes shorter per rewritten instruction.
C5_ShortenedExactly ==
    Returned =>
        LET S == InstrStarts(resolved, 0)
            T == InstrStarts(buf, 0)
        IN  /\ Len(S) = Len(T)
            /\ \A k \in 1..Len(S) :
                 IF S[k] \in FitsInt8(resolved)
                 THEN /\ IsShortFormOf(buf[T[k] + 1], resolved[S[k] + 1])
                      /\ NextIP(buf, T[k]) = T[k] + 2
                 ELSE buf[T[k] + 1] = resolved[S[k] + 1]
            /\ Len(buf) = Len(resolved) - 3 * Cardinality(FitsInt8(resolved))

\* C5 witness: next to rewritten branches, a branch to a set label is kept in
\* long form although its offset, once altered by the single pass, fits 8 bits.
C5_Witness ==
    /\ Returned
    /\ LET S == InstrStarts(resolved, 0)
           T == InstrStarts(buf, 0)
       IN  /\ \E k \in 1..Len(T) :
                /\ buf[T[k] + 1] \in LongJumps \ {opcode.PUSHA}
                /\ LabelWasSet(S[k])
                /\ Int32At(buf, T[k] + 1) <= 127
                /\ Int32At(buf, T[k] + 1) >= -128
           /\ \E k \in 1..Len(T) : buf[T[k] + 1] \in ShortJumps

\* the long branches and calls resolved to exactly the offset d
WithOffset(d) ==
    {ip \in {InstrStarts(resolved, 0)[k] : k \in 1..Len(InstrStarts(resolved, 0))} :
        /\ resolved[ip + 1] \in LongJumps \ {opcode.PUSHA}
        /\ Int32At(resolved, ip + 1) = d
        /\ LabelWasSet(ip)}

\* the output's opcode for the instruction at address ip of the resolved buffer
OutputOp(ip) ==
    LET S == InstrStarts(resolved, 0)
        T == InstrStarts(buf, 0)
        k == CHOOSE j \in 1..Len(S) : S[j] = ip
    IN  buf[T[k] + 1]

\* C6 as stated: offsets +127 and -127 are emitted short, +128 and -128 long.
C6_Original ==
    Returned =>
        /\ \A ip \in WithOffset(127) \cup WithOffset(-127) :
             OutputOp(ip) \in ShortJumps
        /\ \A ip \in WithOffset(128) \cup WithOffset(-128) :
             OutputOp(ip) \in LongJumps

\* C6 amended: offsets +127, -127 and -128 are emitted in short form, and
\* offset +128 is kept in long form.
C6_Boundaries ==
    Returned =>
        /\ \A ip \in WithOffset(127) \cup WithOffset(-127) \cup WithOffset(-128) :
             OutputOp(ip) \in ShortJumps
        /\ \A ip \in WithOffset(128) : OutputOp(ip) \in LongJumps

\* C6 witness: a branch resolved to exactly -128 has been through writeJumps.
C6_Witness == Returned /\ WithOffset(-128) # {}

\* the other three boundary offsets occur as well
C6_Reach127 == ~(Returned /\ WithOffset(127) # {})
C6_ReachNeg127 == ~(Returned /\ WithOffset(-127) # {})
C6_Reach128 == ~(Returned /\ WithOffset(128) # {})

\* the address the shortened program has for address a of the resolved one:
\* 3 less for every rewritten instruction that lies before a
ShiftedBy(short, a) == a - 3 * Cardinality({c \in short : c < a})

Shifted(a) == ShiftedBy(FitsInt8(resolved), a)

\* C3 as stated: after pass 2 every function's range addresses its code in
\* the shortened program: Start is the new address of its first instruction
\* (3 less per shortened instruction that preceded the function), End the
\* new address of its final return (3 less per shortened instruction at or
\* before the function's end).
C3_RangesFollowCode ==
    Returned =>
        \A f \in 1..Len(funcs) :
            LET r0 == Ranges(items)[f] IN
            /\ funcs[f].Start = Shifted(r0.Start)
            /\ funcs[f].End = Shifted(r0.End)
            /\ buf[funcs[f].End + 1] = opcode.RET

\* C4 as stated: CodeGen returns an error, or every long jump was resolved
\* from a label index below len(c.l) whose slot had been set, to an offset
\* of the int32 range; and resolving never panics.
C4_LabelsChecked ==
    phase = "done" =>
        /\ err # "panic"
        /\ err = "nil" =>
             LET S == InstrStarts(prog, 0) IN
             \A k \in 1..Len(S) :
                 prog[S[k] + 1] \in LongJumps =>
                     /\ Uint16At(prog, S[k] + 1) < Len(l)
                     /\ l[Uint16At(prog, S[k] + 1) + 1] # -1
                     /\ Int32At(resolved, S[k] + 1) =
                            l[Uint16At(prog, S[k] + 1) + 1] - S[k]

----------------------------------------------------------------------------
(* The codegen structure and the emit package.                             *)
(*                                                                         *)
(* The typed AST is a tree of records; the field "node" names the Go type  *)
(* of the node.  What the type checker and the scopes answer for a node    *)
(* (typeOf, typeAndValueOf, getVarIndex, the signature of a callee) is     *)
(* stored in the node.                                                     *)

MaxUint16 == 65535

NoName == ""

\* fmt.Sprintf("@%d", len(c.l))
GeneratedLabel(n) == "@" \o ToString(n)

\* fmt.Sprintf("lambda@%d", u)
LambdaName(u) == "lambda@" \o ToString(u)

NoDecl == [name |-> "", results |-> 0, named |-> <<>>]

\* a Go panic unwinds the compiler: nothing after it has an effect
setPanic(c, e) == IF c.panic # "nil" THEN c ELSE [c EXCEPT !.panic = e]

\* newCodegen; errs is the history of the assignments to c.prog.Err, each
\* with the length the buffer had when it was made
newCodegen ==
    [prog |-> <<>>, Err |-> "nil", errs |-> <<>>, panic |-> "nil",
     l |-> <<>>, funcs |-> <<>>,
     labels |-> <<>>, labelList |-> <<>>,
     currentFor |-> NoName, currentSwitch |-> NoName, nextLabel |-> NoName,
     scope |-> NoDecl, lambda |-> <<>>, iterNew |-> FALSE, stmts |-> <<>>,
     initEndOffset |-> 0]

\* c.prog.Err = e
setErr(c, e) ==
    IF c.panic # "nil" THEN c ELSE
    [c EXCEPT !.Err = e, !.errs = Append(@, [e |-> e, len |-> Len(c.prog)])]

\* emit.Instruction: BinWriter writes nothing once its Err is set
emitInstruction(c, op, b) ==
    IF c.Err # "nil" \/ c.panic # "nil" THEN c
    ELSE [c EXCEPT !.prog = @ \o <<op>> \o b]

emitOpcode(c, op) == emitInstruction(c, op, <<>>)

\* emit.Int for the small integers the compiler pushes
emitInt(c, i) ==
    IF i >= -1 /\ i <= 16 THEN emitOpcode(c, opcode.PUSH0 + i)
    ELSE emitInstruction(c, opcode.PUSHINT8, <<ToByte(i)>>)

emitBool(c, ok) == emitOpcode(c, IF ok THEN opcode.PUSHT ELSE opcode.PUSHF)

\* emit.Jmp and emit.Call: the operand is the label number
emitJmp(c, op, label) == emitInstruction(c, op, LabelOperand(label))

emitCall(c, op, label) == emitJmp(c, op, label)

emitSyscall(c, api) == emitInstruction(c, opcode.SYSCALL, <<api, 0, 0, 0>>)

\* newLabel: the new codegen and the label
newLabel(c) ==
    LET li == Len(c.l) IN
    IF li > MaxUint16
    THEN [c |-> setErr(c, "label number is too big"), l |-> 0]
    ELSE [c |-> [c EXCEPT !.l = Append(@, -1)], l |-> li]

newNamedLabel(c, typ, name) ==
    LET r == newLabel(c) IN
    [c |-> [r.c EXCEPT !.labels = (<<name, typ>> :> r.l) @@ @], l |-> r.l]

\* c.l[l] = c.pc() + 1
setLabel(c, lb) == [c EXCEPT !.l[lb + 1] = (Len(c.prog) - 1) + 1]

\* generateLabel: the new codegen, the label and its name
generateLabel(c, typ) ==
    LET name == IF c.nextLabel = NoName THEN GeneratedLabel(Len(c.l))
                ELSE c.nextLabel
        r == newNamedLabel([c EXCEPT !.nextLabel = NoName], typ, name)
    IN [c |-> r.c, l |-> r.l, name |-> name]

\* the zero value of the map when the label is missing
getLabelOffset(c, typ, name) ==
    IF <<name, typ>> \in DOMAIN c.labels THEN c.labels[<<name, typ>>] ELSE 0

getBaseOpcode(t) ==
    CASE t = "varGlobal" -> [ld |-> opcode.LDSFLD0, st |-> opcode.STSFLD0]
      [] t = "varLocal" -> [ld |-> opcode.LDLOC0, st |-> opcode.STLOC0]
      [] t = "varArgument" -> [ld |-> opcode.LDARG0, st |-> opcode.STARG0]

\* emitLoadVar, with the slot getVarIndex gives for the identifier
emitLoadVar(c, id) ==
    LET base == getBaseOpcode(id.vt).ld IN
    IF id.i < 7 THEN emitOpcode(c, base + id.i)
    ELSE emitInstruction(c, base + 7, <<ToByte(id.i)>>)

emitStoreVar(c, id) ==
    IF id.name = "_" THEN emitOpcode(c, opcode.DROP)
    ELSE LET base == getBaseOpcode(id.vt).st IN
         IF id.i < 7 THEN emitOpcode(c, base + id.i)
         ELSE emitInstruction(c, base + 7, <<ToByte(id.i)>>)

\* records one item less than the statement keeps on the stack
pushStackLabelShort(c, name, size) ==
    [c EXCEPT !.labelList = Append(@, [name |-> name, sz |-> size - 1])]

pushStackLabel(c, name, size) ==
    [c EXCEPT !.labelList = Append(@, [name |-> name, sz |-> size])]

RECURSIVE emitDrops(_, _)
emitDrops(c, n) ==
    IF n <= 0 THEN c ELSE emitDrops(emitOpcode(c, opcode.DROP), n - 1)

\* packs one item too many
dropItemsPackMore(c, n) ==
    IF n < 4 THEN emitDrops(c, n)
    ELSE emitOpcode(emitOpcode(emitInt(c, n + 1), opcode.PACK), opcode.DROP)

dropItems(c, n) ==
    IF n < 4 THEN emitDrops(c, n)
    ELSE emitOpcode(emitOpcode(emitInt(c, n), opcode.PACK), opcode.DROP)

dropStackLabel(c) ==
    LET last == Len(c.labelList)
        c1 == dropItems(c, c.labelList[last].sz)
    IN [c1 EXCEPT !.labelList = SubSeq(@, 1, last - 1)]

\* reverses the two items on top only
emitReverseTopTwo(c, num) ==
    IF num < 2 THEN c ELSE emitOpcode(c, opcode.SWAP)

emitReverse(c, num) ==
    CASE num = 0 \/ num = 1 -> c
      [] num = 2 -> emitOpcode(c, opcode.SWAP)
      [] num = 3 -> emitOpcode(c, opcode.REVERSE3)
      [] num = 4 -> emitOpcode(c, opcode.REVERSE4)
      [] OTHER -> emitOpcode(emitInt(c, num), opcode.REVERSEN)

\* jumps on the opposite condition
emitJumpOnConditionNegated(c, cond, jmpLabel) ==
    IF cond THEN emitJmp(c, opcode.JMPIFNOTL, jmpLabel)
    ELSE emitJmp(c, opcode.JMPIFL, jmpLabel)

emitJumpOnCondition(c, cond, jmpLabel) ==
    IF cond THEN emitJmp(c, opcode.JMPIFL, jmpLabel)
    ELSE emitJmp(c, opcode.JMPIFNOTL, jmpLabel)

\* loads the first element or key in every turn
rangeLoadKeyFirst(c) ==
    emitOpcode(emitOpcode(emitOpcode(emitInt(c, 2), opcode.PICKOP),
                          opcode.PUSH0), opcode.PICKITEM)

rangeLoadKey(c) ==
    emitOpcode(emitOpcode(emitOpcode(emitInt(c, 2), opcode.PICKOP),
                          opcode.OVER), opcode.PICKITEM)

----------------------------------------------------------------------------
(* Tokens and constants.                                                   *)

NilNode == [node |-> "nil"]

\* typeAndValueOf of an expression the type checker did not fold
NoValue == [typ |-> "none", val |-> 0]

isNumber(typ) == typ = "int"

isString(typ) == typ = "string"

isBool(typ) == typ = "bool"

convertToken(tok, typ) ==
    LET ok(op) == [op |-> op, err |-> "nil"] IN
    CASE tok \in {"ADD_ASSIGN", "ADD"} -> ok(opcode.ADD)
      [] tok \in {"SUB_ASSIGN", "SUB"} -> ok(opcode.SUB)
      [] tok \in {"MUL_ASSIGN", "MUL"} -> ok(opcode.MUL)
      [] tok \in {"QUO_ASSIGN", "QUO"} -> ok(opcode.DIV)
      [] tok \in {"REM_ASSIGN", "REM"} -> ok(opcode.MOD)
      [] tok = "LSS" -> ok(opcode.LT)
      [] tok = "LEQ" -> ok(opcode.LTE)
      [] tok = "GTR" -> ok(opcode.GT)
      [] tok = "GEQ" -> ok(opcode.GTE)
      [] tok = "EQL" ->
            IF isNumber(typ) THEN ok(opcode.NUMEQUAL) ELSE ok(opcode.EQUAL)
      [] tok = "NEQ" ->
            IF isNumber(typ) THEN ok(opcode.NUMNOTEQUAL)
            ELSE ok(opcode.NOTEQUAL)
      [] tok = "DEC" -> ok(opcode.DEC)
      [] tok = "INC" -> ok(opcode.INC)
      [] tok = "NOT" -> ok(opcode.NOT)
      [] tok = "AND" -> ok(opcode.AND)
      [] tok = "OR" -> ok(opcode.OR)
      [] tok = "SHL" -> ok(opcode.SHL)
      [] tok = "SHR" -> ok(opcode.SHR)
      [] tok = "XOR" -> ok(opcode.XOR)
      [] OTHER -> [op |-> 0, err |-> "compiler could not convert token"]

emitToken(c, tok, typ) ==
    LET r == convertToken(tok, typ) IN
    IF r.err # "nil" THEN setErr(c, r.err) ELSE emitOpcode(c, r.op)

getJumpForToken(tok, typ) ==
    CASE tok = "GTR" -> [op |-> opcode.JMPGTL, ok |-> TRUE]
      [] tok = "GEQ" -> [op |-> opcode.JMPGEL, ok |-> TRUE]
      [] tok = "LSS" -> [op |-> opcode.JMPLTL, ok |-> TRUE]
      [] tok = "LEQ" -> [op |-> opcode.JMPLEL, ok |-> TRUE]
      [] tok = "EQL" /\ isNumber(typ) -> [op |-> opcode.JMPEQL, ok |-> TRUE]
      [] tok = "NEQ" /\ isNumber(typ) -> [op |-> opcode.JMPNEL, ok |-> TRUE]
      [] OTHER -> [op |-> 0, ok |-> FALSE]

negateJmp(op) ==
    CASE op = opcode.JMPIFL -> opcode.JMPIFNOTL
      [] op = opcode.JMPIFNOTL -> opcode.JMPIFL
      [] op = opcode.JMPEQL -> opcode.JMPNEL
      [] op = opcode.JMPNEL -> opcode.JMPEQL
      [] op = opcode.JMPGTL -> opcode.JMPLEL
      [] op = opcode.JMPGEL -> opcode.JMPLTL
      [] op = opcode.JMPLEL -> opcode.JMPGTL
      [] op = opcode.JMPLTL -> opcode.JMPGEL

emitLoadConst(c, t) ==
    IF c.Err # "nil" THEN c
    ELSE CASE t.typ = "int" -> emitInt(c, t.val)
           [] t.typ = "bool" -> emitBool(c, t.val)
           [] t.typ = "string" ->
                emitInstruction(c, opcode.PUSHDATA1, <<Len(t.val)>> \o t.val)
           [] t.typ = "struct" ->
                setErr(c, "compiler doesn't know how to convert this constant")
           [] OTHER ->
                setErr(c, "compiler doesn't know how to convert this basic type")

\* stackitem.StructT
StructT == 65

emitConvert(c, typ) == emitInstruction(c, opcode.CONVERT, <<typ>>)

isExprNil(e) == e.node = "Ident" /\ e.name = "nil"

getCompareWithNilArg(n) ==
    IF isExprNil(n.X) THEN n.Y
    ELSE IF isExprNil(n.Y) THEN n.X
    ELSE NilNode

isFallthroughStmt(s) == s.node = "BranchStmt" /\ s.tok = "FALLTHROUGH"

\* c.funcs[name]
funcIndex(c, name) == {i \in 1..Len(c.funcs) : c.funcs[i].name = name}

\* counts the innermost entry only
sumSizesInnermost(labelList, i) == IF i = 0 THEN 0 ELSE labelList[i].sz

RECURSIVE sumSizes(_, _)
sumSizes(labelList, i) ==
    IF i = 0 THEN 0 ELSE labelList[i].sz + sumSizes(labelList, i - 1)

\* counts the entry named label too
RECURSIVE sumUntilInclusive(_, _, _)
sumUntilInclusive(labelList, i, label) ==
    IF i < 1 THEN 0
    ELSE IF labelList[i].name = label THEN labelList[i].sz
    ELSE labelList[i].sz + sumUntilInclusive(labelList, i - 1, label)

\* the loop of BranchStmt: from the innermost entry outwards, up to the
\* entry named label
RECURSIVE sumUntil(_, _, _)
sumUntil(labelList, i, label) ==
    IF i >= 1 /\ labelList[i].name # label
    THEN labelList[i].sz + sumUntil(labelList, i - 1, label)
    ELSE 0

----------------------------------------------------------------------------
(* codegen.Visit.  Walk(c, n) is ast.Walk(c, n): Visit on the node, then,  *)
(* for the node types Visit has no case for, the walk of the children.     *)
(* c.stmts notes, for every statement that owns a stack label and every    *)
(* jump out of one, where its code lies; nothing the compiler does reads   *)
(* it.                                                                     *)

note(kind, name, start, after, base, sz, end, post) ==
    [kind |-> kind, name |-> name, start |-> start, after |-> after,
     base |-> base, sz |-> sz, end |-> end, post |-> post]

addNote(c, nt) == [c EXCEPT !.stmts = Append(@, nt)]

AssignOps ==
    {"ADD_ASSIGN", "SUB_ASSIGN", "MUL_ASSIGN", "QUO_ASSIGN", "REM_ASSIGN",
     "AND_ASSIGN", "OR_ASSIGN", "XOR_ASSIGN", "SHL_ASSIGN", "SHR_ASSIGN",
     "AND_NOT_ASSIGN"}

RECURSIVE Walk(_, _)
RECURSIVE WalkList(_, _, _)
RECURSIVE WalkRev(_, _, _)
RECURSIVE emitBoolExpr(_, _, _, _, _)
RECURSIVE emitBinaryExpr(_, _, _, _, _)
RECURSIVE assignLhs(_, _, _)
RECURSIVE caseExprs(_, _, _, _, _, _)
RECURSIVE caseBody(_, _, _, _)
RECURSIVE switchClauses(_, _, _, _, _, _)
RECURSIVE convertMap(_, _, _)
RECURSIVE walkArgs(_, _, _)
RECURSIVE loadNamed(_, _, _)

\* for i := range list { ast.Walk(c, list[i]) }
WalkList(c, list, i) ==
    IF i > Len(list) THEN c
    ELSE Then(Walk(c, list[i]), LAMBDA c1 : WalkList(c1, list, i + 1))

\* for i := len(list) - 1; i >= 0; i-- { ast.Walk(c, list[i]) }
WalkRev(c, list, i) ==
    IF i < 1 THEN c
    ELSE Then(Walk(c, list[i]), LAMBDA c1 : WalkRev(c1, list, i - 1))

\* the named results of the function, last first
loadNamed(c, names, j) ==
    IF j < 1 THEN c ELSE loadNamed(emitLoadVar(c, names[j]), names, j - 1)

\* ast.Walk(c, n.Rhs[i]); an index beyond n.Rhs is a Go panic
walkRhs(c, n, i) ==
    IF i > Len(n.Rhs)
    THEN setPanic(c, "index out of range")
    ELSE Walk(c, n.Rhs[i])

assignLhs(c, n, i) ==
    IF i > Len(n.Lhs) THEN c ELSE
    LET multiRet == Len(n.Rhs) # Len(n.Lhs)
        isAssignOp == n.Tok \in AssignOps
        t == n.Lhs[i]
    IN CASE t.node = "Ident" ->
              LET c1 == IF ~isAssignOp /\ (i = 1 \/ ~multiRet)
                        THEN Walk(c, n.Rhs[i]) ELSE c
              IN assignLhs(emitStoreVar(c1, t), n, i + 1)
         [] t.node = "SelectorExpr" ->
              LET c1 == IF ~isAssignOp THEN walkRhs(c, n, i) ELSE c IN
              IF t.pkgVar THEN emitStoreVar(c1, t.Sel)
              ELSE IF ~t.isStruct
              THEN setErr(c1, "nested selector assigns not supported yet")
              ELSE LET c2 == Walk(c1, t.X) IN
                   assignLhs(emitOpcode(emitOpcode(emitInt(c2, t.field),
                                  opcode.ROT), opcode.SETITEM), n, i + 1)
         [] t.node = "IndexExpr" ->
              LET c1 == IF ~isAssignOp THEN walkRhs(c, n, i) ELSE c
                  c2 == Walk(Walk(c1, t.X), t.Index)
              IN assignLhs(emitOpcode(emitOpcode(c2, opcode.ROT),
                                      opcode.SETITEM), n, i + 1)
         [] OTHER -> assignLhs(c, n, i + 1)

VisitAssignStmt(c, n) ==
    LET isAssignOp == n.Tok \in AssignOps
        c1 == IF isAssignOp
              THEN emitToken(Walk(Walk(c, n.Lhs[1]), n.Rhs[1]), n.Tok, n.rtyp)
              ELSE c
    IN assignLhs(c1, n, 1)

VisitReturnStmt(c, n) ==
    Then(newLabel(c), LAMBDA r :
    Then(setLabel(r.c, r.l), LAMBDA c1 :
    LET cnt == sumSizes(c1.labelList, Len(c1.labelList))
        c2 == dropItems(c1, cnt)
    IN
    Then(IF Len(n.Results) = 0
         THEN loadNamed(c2, c1.scope.named, Len(c1.scope.named))
         ELSE WalkRev(c2, n.Results, Len(n.Results)), LAMBDA c3 :
    emitOpcode(addNote(c3, note("ReturnStmt", NoName, Len(c.prog),
                                Len(c3.prog), 0, cnt, -1, -1)),
               opcode.RET))))

VisitIfStmt(c, n) ==
    Then(newLabel(c), LAMBDA r1 :
    Then(newLabel(r1.c), LAMBDA r2 :
    Then(newLabel(r2.c), LAMBDA r3 :
    LET lIf == r1.l
        lElse == r2.l
        lElseEnd == r3.l
        c1 == IF n.Cond.node # "nil"
              THEN emitBoolExpr(r3.c, n.Cond, TRUE, FALSE, lElse) ELSE r3.c
    IN
    Then(WalkList(setLabel(c1, lIf), n.Body, 1), LAMBDA c2 :
    Then(setLabel(IF n.Else.node # "nil"
                  THEN emitJmp(c2, opcode.JMPL, lElseEnd) ELSE c2, lElse),
         LAMBDA c4 :
    setLabel(IF n.Else.node # "nil" THEN Walk(c4, n.Else) ELSE c4,
             lElseEnd))))))

\* the case expressions of one clause
caseExprs(c, list, j, eqOpcode, lEnd, lStart) ==
    IF j > Len(list) THEN c ELSE
    LET c1 == emitOpcode(Walk(emitOpcode(c, opcode.DUP), list[j]), eqOpcode)
        c2 == emitJmp(c1,
                      IF j = Len(list) THEN opcode.JMPIFNOTL
                      ELSE opcode.JMPIFL,
                      IF j = Len(list) THEN lEnd ELSE lStart)
    IN caseExprs(c2, list, j + 1, eqOpcode, lEnd, lStart)

\* the statements of one clause; a fallthrough in last position jumps to
\* the start of the next clause
caseBody(c, stmts, j, lNext) ==
    IF j > Len(stmts) THEN c
    ELSE IF j = Len(stmts) /\ isFallthroughStmt(stmts[j])
    THEN emitJmp(c, opcode.JMPL, lNext)
    ELSE Then(Walk(c, stmts[j]), LAMBDA c1 : caseBody(c1, stmts, j + 1, lNext))

\* startLabels[i] is label first + i
switchClauses(c, n, i, eqOpcode, switchEnd, first) ==
    IF i > Len(n.Body) THEN c ELSE
    Then(newLabel(c), LAMBDA r :
    LET lEnd == r.l
        lStart == first + (i - 1)
        cc == n.Body[i]
        c1 == caseExprs(r.c, cc.List, 1, eqOpcode, lEnd, lStart)
        c2 == setLabel(c1, lStart)
        c3 == caseBody(c2, cc.Body, 1, first + i)
        c4 == emitJmp(c3, opcode.JMPL, switchEnd)
    IN
    Then(addNote(setLabel(c4, lEnd),
                 note("CaseClause", NoName, Len(c.prog), Len(c4.prog),
                      0, 0, switchEnd, first + i)), LAMBDA c5 :
    switchClauses(c5, n, i + 1, eqOpcode, switchEnd, first)))

RECURSIVE newLabels(_, _)
newLabels(c, k) == IF k = 0 THEN c ELSE newLabels(newLabel(c).c, k - 1)

VisitSwitchStmt(c, n) ==
    Then(Walk(c, n.Tag), LAMBDA c1 :
    Then(generateLabel(c1, "labelEnd"), LAMBDA g :
    LET eqOpcode == convertToken("EQL", n.ttyp).op
        switchEnd == g.l
        label == g.name
        lastSwitch == c1.currentSwitch
        base == sumSizes(c1.labelList, Len(c1.labelList))
    IN
    Then(pushStackLabel([g.c EXCEPT !.currentSwitch = label], label, 1),
         LAMBDA c2 :
    LET first == Len(c2.l)
        c3 == newLabels(c2, Len(n.Body))
        c4 == switchClauses(c3, n, 1, eqOpcode, switchEnd, first)
    IN
    Then(dropStackLabel(setLabel(c4, switchEnd)), LAMBDA c5 :
    [addNote(c5, note("SwitchStmt", label, Len(c.prog), Len(c5.prog),
                      base, 1, switchEnd, -1))
       EXCEPT !.currentSwitch = lastSwitch]))))

VisitBranchStmt(c, n) ==
    LET label == IF n.Label # NoName THEN n.Label
                 ELSE IF n.tok = "BREAK" THEN c.currentSwitch
                 ELSE IF n.tok = "CONTINUE" THEN c.currentFor
                 ELSE NoName
        cnt == sumUntil(c.labelList, Len(c.labelList), label)
    IN
    Then(dropItems(c, cnt), LAMBDA c1 :
    Then(addNote(c1, note(n.tok, label, Len(c.prog), Len(c1.prog),
                          0, cnt, -1, -1)), LAMBDA c2 :
    CASE n.tok = "BREAK" ->
           emitJmp(c2, opcode.JMPL, getLabelOffset(c2, "labelEnd", label))
      [] n.tok = "CONTINUE" ->
           emitJmp(c2, opcode.JMPL, getLabelOffset(c2, "labelPost", label))
      [] OTHER -> c2))

\* a variant of VisitForStmt: the post label is set behind the post
\* statement, so that continue goes straight to the condition
VisitForStmtPostSkipped(c, n) ==
    Then(generateLabel(c, "labelStart"), LAMBDA g :
    Then(newNamedLabel(g.c, "labelEnd", g.name), LAMBDA r1 :
    Then(newNamedLabel(r1.c, "labelPost", g.name), LAMBDA r2 :
    LET fstart == g.l
        label == g.name
        fend == r1.l
        fpost == r2.l
        lastLabel == c.currentFor
        lastSwitch == c.currentSwitch
        c1 == [r2.c EXCEPT !.currentFor = label, !.currentSwitch = label]
    IN
    Then(IF n.Init.node # "nil" THEN Walk(c1, n.Init) ELSE c1, LAMBDA c2 :
    Then(setLabel(pushStackLabel(c2, label, 0), fstart), LAMBDA c3 :
    Then(IF n.Cond.node # "nil"
         THEN emitJmp(Walk(c3, n.Cond), opcode.JMPIFNOTL, fend) ELSE c3,
         LAMBDA c4 :
    Then(WalkList(c4, n.Body, 1), LAMBDA c5 :
    Then(setLabel(IF n.Post.node # "nil" THEN Walk(c5, n.Post) ELSE c5,
                  fpost), LAMBDA c6 :
    Then(dropStackLabel(setLabel(emitJmp(c6, opcode.JMPL, fstart), fend)),
         LAMBDA c8 :
    [addNote(c8, note("ForStmt", label, Len(c.prog), Len(c8.prog),
                      sumSizes(c2.labelList, Len(c2.labelList)), 0,
                      fend, fpost))
       EXCEPT !.currentFor = lastLabel, !.currentSwitch = lastSwitch])))))))))

VisitForStmt(c, n) ==
    Then(generateLabel(c, "labelStart"), LAMBDA g :
    Then(newNamedLabel(g.c, "labelEnd", g.name), LAMBDA r1 :
    Then(newNamedLabel(r1.c, "labelPost", g.name), LAMBDA r2 :
    LET fstart == g.l
        label == g.name
        fend == r1.l
        fpost == r2.l
        lastLabel == c.currentFor
        lastSwitch == c.currentSwitch
        c1 == [r2.c EXCEPT !.currentFor = label, !.currentSwitch = label]
    IN
    Then(IF n.Init.node # "nil" THEN Walk(c1, n.Init) ELSE c1, LAMBDA c2 :
    Then(setLabel(pushStackLabel(c2, label, 0), fstart), LAMBDA c3 :
    Then(IF n.Cond.node # "nil"
         THEN emitJmp(Walk(c3, n.Cond), opcode.JMPIFNOTL, fend) ELSE c3,
         LAMBDA c4 :
    Then(setLabel(WalkList(c4, n.Body, 1), fpost), LAMBDA c5 :
    Then(IF n.Post.node # "nil" THEN Walk(c5, n.Post) ELSE c5, LAMBDA c6 :
    Then(dropStackLabel(setLabel(emitJmp(c6, opcode.JMPL, fstart), fend)),
         LAMBDA c8 :
    [addNote(c8, note("ForStmt", label, Len(c.prog), Len(c8.prog),
                      sumSizes(c2.labelList, Len(c2.labelList)), 0,
                      fend, fpost))
       EXCEPT !.currentFor = lastLabel, !.currentSwitch = lastSwitch])))))))))

VisitRangeStmt(c, n) ==
    Then(generateLabel(c, "labelStart"), LAMBDA g :
    Then(newNamedLabel(g.c, "labelEnd", g.name), LAMBDA r1 :
    Then(newNamedLabel(r1.c, "labelPost", g.name), LAMBDA r2 :
    LET start == g.l
        label == g.name
        end == r1.l
        post == r2.l
        lastFor == c.currentFor
        lastSwitch == c.currentSwitch
        base == sumSizes(c.labelList, Len(c.labelList))
        isMap == n.isMap
        stackSize == IF isMap THEN 4 ELSE 3
        needValue == n.Value.node # "nil" /\ n.Value.name # "_"
        needKey == n.Key.node # "nil" /\ n.Key.name # "_"
        keyLoaded == needKey /\ isMap /\ needValue
    IN
    Then(emitOpcode(Walk([r2.c EXCEPT !.currentFor = label,
                                      !.currentSwitch = label], n.X),
                    opcode.DUP), LAMBDA c2 :
    Then(emitOpcode(emitOpcode(
           IF isMap THEN emitOpcode(emitOpcode(c2, opcode.KEYS), opcode.DUP)
           ELSE c2, opcode.SIZE), opcode.PUSH0), LAMBDA c4 :
    Then(emitJmp(emitOpcode(emitOpcode(
           setLabel(pushStackLabel(c4, label, stackSize), start),
           opcode.OVER), opcode.OVER), opcode.JMPLEL, end), LAMBDA c6 :
    Then(IF ~needKey THEN c6
         ELSE emitStoreVar(
                IF isMap
                THEN (IF needValue
                      THEN emitOpcode(rangeLoadKey(c6), opcode.DUP)
                      ELSE rangeLoadKey(c6))
                ELSE emitOpcode(c6, opcode.DUP), n.Key), LAMBDA c7 :
    Then(IF ~isMap \/ ~keyLoaded THEN rangeLoadKey(c7) ELSE c7, LAMBDA d1 :
    Then(IF ~needValue THEN c7
         ELSE emitStoreVar(
                IF isMap
                THEN emitOpcode(emitOpcode(emitOpcode(
                       emitInt(d1, 4), opcode.PICKOP),
                       opcode.SWAP), opcode.PICKITEM)
                ELSE d1, n.Value), LAMBDA c8 :
    Then(setLabel(WalkList(c8, n.Body, 1), post), LAMBDA c9 :
    Then(dropStackLabel(setLabel(
           emitJmp(emitOpcode(c9, opcode.INC), opcode.JMPL, start), end)),
         LAMBDA c11 :
    [addNote(c11, note("RangeStmt", label, Len(c.prog), Len(c11.prog),
                       base, stackSize, end, post))
       EXCEPT !.currentFor = lastFor, !.currentSwitch = lastSwitch])))))))))))

emitBoolExpr(c, n, needJump, cond, jmpLabel) ==
    IF n.node = "BinaryExpr"
    THEN emitBinaryExpr(c, n, needJump, cond, jmpLabel)
    ELSE LET c1 == Walk(c, n) IN
         IF needJump THEN emitJumpOnCondition(c1, cond, jmpLabel) ELSE c1

emitBinaryExpr(c, n, needJump, cond, jmpLabel) ==
    LET tinfo == n.tv
        arg == getCompareWithNilArg(n)
    IN
    IF tinfo.typ # "none"
    THEN LET c1 == emitLoadConst(c, tinfo) IN
         IF needJump /\ isBool(tinfo.typ)
         THEN emitJumpOnCondition(c1, cond, jmpLabel) ELSE c1
    ELSE IF arg.node # "nil"
    THEN LET c1 == emitOpcode(Walk(c, arg), opcode.ISNULL) IN
         IF needJump
         THEN emitJumpOnCondition(c1, cond = (n.Op = "EQL"), jmpLabel)
         ELSE IF n.Op = "NEQ" THEN emitOpcode(c1, opcode.NOT)
         ELSE c1
    ELSE IF n.Op \in {"LAND", "LOR"}
    THEN LET r == newLabel(c)
             end == r.l
             condShort == n.Op = "LOR"
         IN
         IF needJump
         THEN LET lb == IF cond = condShort THEN jmpLabel ELSE end
                  c1 == emitBoolExpr(r.c, n.X, TRUE, condShort, lb)
                  c2 == emitBoolExpr(c1, n.Y, TRUE, cond, jmpLabel)
              IN setLabel(c2, end)
         ELSE LET rp == newLabel(r.c)
                  push == rp.l
                  c1 == emitBoolExpr(rp.c, n.X, TRUE, condShort, push)
                  c2 == emitBoolExpr(c1, n.Y, FALSE, FALSE, 0)
                  c3 == emitJmp(c2, opcode.JMPL, end)
                  c4 == emitBool(setLabel(c3, push), condShort)
              IN setLabel(c4, end)
    ELSE LET c1 == Walk(Walk(c, n.X), n.Y)
             typ == n.typ
             j == getJumpForToken(n.Op, typ)
         IN
         IF ~needJump THEN emitToken(c1, n.Op, typ)
         ELSE IF ~j.ok
         THEN emitJumpOnCondition(emitToken(c1, n.Op, typ), cond, jmpLabel)
         ELSE emitJmp(c1, IF cond THEN j.op ELSE negateJmp(j.op), jmpLabel)

convertMap(c, elts, i) ==
    IF i > Len(elts) THEN c ELSE
    LET c1 == Walk(Walk(emitOpcode(c, opcode.DUP), elts[i].Key),
                   elts[i].Value)
    IN convertMap(emitOpcode(c1, opcode.SETITEM), elts, i + 1)

VisitCompositeLit(c, n) ==
    CASE n.typ = "map" -> convertMap(emitOpcode(c, opcode.NEWMAP), n.Elts, 1)
      [] OTHER ->
           emitOpcode(emitInt(WalkRev(c, n.Elts, Len(n.Elts)), Len(n.Elts)),
                      opcode.PACK)

VisitUnaryExpr(c, n) ==
    IF n.Op = "AND"
    THEN setErr(c, "'&' can be used only with struct literals")
    ELSE LET c1 == Walk(c, n.X) IN
         CASE n.Op = "ADD" -> c1
           [] n.Op = "SUB" -> emitOpcode(c1, opcode.NEGATE)
           [] n.Op = "NOT" -> emitOpcode(c1, opcode.NOT)
           [] n.Op = "XOR" -> emitOpcode(c1, opcode.INVERT)
           [] OTHER -> setErr(c1, "invalid unary operator")

VisitStarExpr(c, n) ==
    IF ~n.isStruct
    THEN setErr(c, "dereferencing is only supported on structs")
    ELSE emitConvert(Walk(c, n.X), StructT)

VisitSelectorExpr(c, n) ==
    IF n.pkgVar THEN
        IF n.tv.typ # "none" THEN emitLoadConst(c, n.tv)
        ELSE emitLoadVar(c, n.Sel)
    ELSE IF ~n.isStruct
    THEN setErr(c, "selectors are supported only on structs")
    ELSE emitOpcode(emitInt(Walk(c, n.X), n.field), opcode.PICKITEM)

\* the whole of a, whatever the bounds are
VisitSliceExprLength(c, n) ==
    emitOpcode(emitOpcode(emitOpcode(emitOpcode(emitLoadVar(c, n.X),
        opcode.PUSH0), opcode.OVER), opcode.SIZE), opcode.SUBSTR)

\* n.X.(*ast.Ident) is a Go panic for any other operand
VisitSliceExpr(c, n) ==
    IF n.X.node # "Ident"
    THEN setPanic(c, "interface conversion: ast.Expr is not *ast.Ident")
    ELSE
    Then(emitLoadVar(c, n.X), LAMBDA c1 :
    Then(IF n.Low.node # "nil" THEN Walk(c1, n.Low)
         ELSE emitOpcode(c1, opcode.PUSH0), LAMBDA c2 :
    Then(IF n.High.node # "nil" THEN Walk(c2, n.High)
         ELSE emitOpcode(emitOpcode(c2, opcode.OVER), opcode.SIZE), LAMBDA c3 :
    emitOpcode(emitOpcode(emitOpcode(c3, opcode.OVER), opcode.SUB),
               opcode.SUBSTR))))

VisitIdent(c, n) ==
    IF n.tv.typ # "none" THEN emitLoadConst(c, n.tv)
    ELSE IF n.name = "nil" THEN emitOpcode(c, opcode.PUSHNULL)
    ELSE emitLoadVar(c, n)

VisitIncDecStmt(c, n) ==
    LET c1 == emitToken(Walk(c, n.X), n.Tok, n.typ) IN
    IF n.X.node = "Ident" THEN emitStoreVar(c1, n.X) ELSE c1

\* newLambda and the PUSHA of the function literal
VisitFuncLit(c, n) ==
    LET r == newLabel(c)
        c1 == [r.c EXCEPT !.lambda = Append(@,
                  [label |-> r.l,
                   decl |-> [n.decl EXCEPT !.name = LambdaName(r.l)]])]
    IN emitInstruction(c1, opcode.PUSHA, LabelOperand(r.l))

\* the arguments, each followed by the copy of a struct passed by value
walkArgs(c, args, i) ==
    IF i > Len(args) THEN c ELSE
    Then(Walk(c, args[i]), LAMBDA c1 :
    walkArgs(IF args[i].node = "Ident" /\ args[i].typ = "struct"
             THEN emitOpcode(emitOpcode(emitOpcode(emitOpcode(emitOpcode(
                    emitOpcode(c1, opcode.NEWARRAY0), opcode.DUP),
                    opcode.ROT), opcode.APPEND), opcode.PUSH0),
                    opcode.PICKITEM)
             ELSE c1, args, i + 1))

convertSyscall(c, f) ==
    IF ~f.known THEN setErr(c, "unknown VM syscall api")
    ELSE LET c1 == emitSyscall(c, f.api)
             c2 == IF f.toStruct THEN emitConvert(c1, StructT) ELSE c1
         IN emitOpcode(c2, opcode.NOP)

\* the Go builtins this model converts
isGoBuiltin(name) == name \in {"len", "append"}

isByteSlice(typ) == typ = "bytes"

\* the loop of append over expr.Args[1:]
RECURSIVE appendArgs(_, _, _)
appendArgs(c, bytes, k) ==
    IF k = 0 THEN c
    ELSE appendArgs(
           IF bytes THEN emitOpcode(emitOpcode(c, opcode.SWAP), opcode.CAT)
           ELSE emitOpcode(emitOpcode(emitOpcode(c, opcode.DUP), opcode.ROT),
                           opcode.APPEND),
           bytes, k - 1)

convertAppend(c, expr) ==
    LET bytes == isByteSlice(expr.Args[1].typ) IN
    Then(emitInstruction(emitOpcode(emitOpcode(
           emitReverse(c, Len(expr.Args)), opcode.DUP), opcode.ISNULL),
           opcode.JMPIFNOT, <<2 + 3>>), LAMBDA c1 :
    Then(IF bytes
         THEN emitOpcode(emitOpcode(emitOpcode(c1, opcode.DROP), opcode.PUSH0),
                         opcode.NEWBUFFER)
         ELSE emitOpcode(emitOpcode(emitOpcode(c1, opcode.DROP),
                         opcode.NEWARRAY0), opcode.NOP), LAMBDA c2 :
    appendArgs(c2, bytes, Len(expr.Args) - 1)))

convertBuiltin(c, expr) ==
    CASE expr.Fun.name = "len" ->
           emitOpcode(emitOpcode(emitInstruction(emitOpcode(emitInstruction(
             emitOpcode(emitOpcode(c, opcode.DUP), opcode.ISNULL),
             opcode.JMPIF, <<2 + 1 + 2>>), opcode.SIZE),
             opcode.JMP, <<2 + 1 + 1>>), opcode.DROP), opcode.PUSH0)
      [] expr.Fun.name = "append" -> convertAppend(c, expr)

\* n.Fun is an identifier or a selector; n.sig is the signature typeOf(n.Fun)
\* gives: whether it is variadic and how many parameters it declares
VisitCallExpr(c, n) ==
    LET fun == n.Fun
        isMethod == fun.node = "SelectorExpr" /\ fun.isMethod
        found == funcIndex(c, fun.name)
        ok == found # {}
        f == c.funcs[CHOOSE i \in found : TRUE]
        numArgs0 == Len(n.Args) + (IF isMethod THEN 1 ELSE 0)
        name == IF fun.node = "Ident" /\ ~ok THEN fun.name ELSE ""
        isFunc == fun.node = "Ident" /\ fun.isVar
        packs == n.sig.variadic /\ ~n.Ellipsis
        varSize == Len(n.Args) - n.sig.params + 1
        numArgs == IF packs THEN numArgs0 - (varSize - 1) ELSE numArgs0
        isBuiltin == fun.node = "Ident" /\ isGoBuiltin(fun.name)
    IN
    IF isBuiltin
    THEN Then(walkArgs(c, n.Args, 1), LAMBDA cb : convertBuiltin(cb, n))
    ELSE
    Then(IF isMethod THEN Walk(c, fun.X) ELSE c, LAMBDA c1 :
    IF fun.node = "SelectorExpr" /\ ~ok
    THEN setPanic(c1, "invalid memory address or nil pointer dereference")
    ELSE
    Then(walkArgs(c1, n.Args, 1), LAMBDA c2 :
    Then(emitReverse(IF packs
                     THEN emitOpcode(emitInt(emitReverse(c2, varSize),
                                             varSize), opcode.PACK)
                     ELSE c2, numArgs), LAMBDA c4 :
    CASE name # "" ->
           IF isFunc THEN emitOpcode(emitLoadVar(c4, fun), opcode.CALLA)
           ELSE c4
      [] f.syscall -> convertSyscall(c4, f)
      [] OTHER -> emitCall(c4, opcode.CALLL, f.label))))

Walk(c, n) ==
    IF c.Err # "nil" \/ c.panic # "nil" THEN c
    ELSE CASE n.node = "nil" ->
                setPanic(c, "ast.Walk: unexpected node type <nil>")
           [] n.node = "AssignStmt" -> VisitAssignStmt(c, n)
           [] n.node = "ReturnStmt" -> VisitReturnStmt(c, n)
           [] n.node = "IfStmt" -> VisitIfStmt(c, n)
           [] n.node = "SwitchStmt" -> VisitSwitchStmt(c, n)
           [] n.node = "FuncLit" -> VisitFuncLit(c, n)
           [] n.node = "BasicLit" -> emitLoadConst(c, n.tv)
           [] n.node = "SliceExpr" -> VisitSliceExpr(c, n)
           [] n.node = "StarExpr" -> VisitStarExpr(c, n)
           [] n.node = "Ident" -> VisitIdent(c, n)
           [] n.node = "CompositeLit" -> VisitCompositeLit(c, n)
           [] n.node = "BinaryExpr" -> emitBinaryExpr(c, n, FALSE, FALSE, 0)
           [] n.node = "CallExpr" -> VisitCallExpr(c, n)
           [] n.node = "SelectorExpr" -> VisitSelectorExpr(c, n)
           [] n.node = "UnaryExpr" -> VisitUnaryExpr(c, n)
           [] n.node = "IncDecStmt" -> VisitIncDecStmt(c, n)
           [] n.node = "IndexExpr" ->
                emitOpcode(Walk(Walk(c, n.X), n.Index), opcode.PICKITEM)
           [] n.node = "BranchStmt" -> VisitBranchStmt(c, n)
           [] n.node = "LabeledStmt" ->
                Walk([c EXCEPT !.nextLabel = n.Label], n.Stmt)
           [] n.node = "BlockStmt" -> WalkList(c, n.List, 1)
           [] n.node = "ForStmt" -> VisitForStmt(c, n)
           [] n.node = "RangeStmt" -> VisitRangeStmt(c, n)
           [] n.node \in {"ExprStmt", "ParenExpr"} -> Walk(c, n.X)

----------------------------------------------------------------------------
(* convertFuncDecl, compile and CodeGen.                                   *)
(*                                                                         *)
(* A declaration carries what funcScope computes from it: countLocals,     *)
(* countArgs, whether it is a syscall of the interop packages and whether  *)
(* analyzeFuncUsage found it used.  c.iterNew is the choice the Go runtime *)
(* makes in "for _, f := range c.lambda" for an entry inserted while the   *)
(* loop runs: the entry is either produced by the loop or skipped.         *)

\* the last statement of the body is a return statement
\* func init() of no receiver and no parameters
isInitFunc(decl) == decl.name = "init" /\ decl.sizeArg = 0

lastStmtIsReturn(decl) ==
    Len(decl.Body) # 0 /\ decl.Body[Len(decl.Body)].node = "ReturnStmt"

newFunc(c, decl) ==
    LET r == newLabel(c) IN
    [r.c EXCEPT !.funcs = Append(@,
        [name |-> decl.name, label |-> r.l, syscall |-> decl.syscall,
         known |-> decl.known, api |-> decl.api, toStruct |-> decl.toStruct,
         rng |-> [Start |-> 0, End |-> 0]])]

RECURSIVE resolveFuncDecls(_, _, _)
resolveFuncDecls(c, ds, i) ==
    IF i > Len(ds) THEN c
    ELSE resolveFuncDecls(IF ds[i].node = "FuncDecl" THEN newFunc(c, ds[i])
                          ELSE c, ds, i + 1)

RECURSIVE convertFuncDecl(_, _, _)
RECURSIVE convertLambdas(_, _, _)

\* the loop over c.lambda of a function that is not a lambda: entries
\* 1..n were in the map when the loop started
convertLambdas(c, i, n) ==
    IF i > Len(c.lambda) \/ (i > n /\ ~c.iterNew) THEN c
    ELSE Then(convertFuncDecl(c, c.lambda[i].decl, c.lambda[i].label),
              LAMBDA c1 : convertLambdas(c1, i + 1, n))

\* lambda is the label of the function literal, -1 for a declared function
convertFuncDecl(c, decl, lambda) ==
    LET isInit == lambda = -1 /\ isInitFunc(decl)
        found == funcIndex(c, decl.name)
        ok == found # {} /\ lambda = -1 /\ ~isInit
        isLambda == lambda # -1
        sizeLoc == decl.sizeLoc
        sizeArg == decl.sizeArg
    IN
    IF ok /\ c.funcs[CHOOSE i \in found : TRUE].syscall THEN c ELSE
    Then(IF ok \/ isLambda THEN c
         ELSE IF isInit THEN newLabel(c).c
         ELSE newFunc(c, decl), LAMBDA c0 :
    LET fi == IF ok THEN CHOOSE i \in found : TRUE ELSE Len(c0.funcs)
        label == IF isLambda THEN lambda
                 ELSE IF isInit THEN -1 ELSE c0.funcs[fi].label
    IN
    Then([(IF ok \/ isLambda THEN setLabel(c0, label) ELSE c0)
            EXCEPT !.scope = decl], LAMBDA c2 :
    Then(IF sizeLoc > 255
         THEN setErr(c2, "maximum of 255 local variables is allowed")
         ELSE c2, LAMBDA c3 :
    Then(IF sizeArg > 255
         THEN setErr(c3, "maximum of 255 local variables is allowed")
         ELSE c3, LAMBDA c4 :
    Then(WalkList(IF sizeLoc # 0 \/ sizeArg # 0
                  THEN emitInstruction(c4, opcode.INITSLOT,
                                       <<ToByte(sizeLoc), ToByte(sizeArg)>>)
                  ELSE c4, decl.Body, 1), LAMBDA c6 :
    Then(IF ~isInit /\ ~lastStmtIsReturn(decl)
         THEN emitOpcode(c6, opcode.RET) ELSE c6, LAMBDA c7 :
    LET start == ToUint16(Len(c2.prog))
        end == ToUint16(Len(c7.prog) - 1)
    IN
    IF c7.panic # "nil" \/ isLambda THEN c7
    ELSE Then(convertLambdas(
                IF isInit THEN c7
                ELSE [c7 EXCEPT !.funcs[fi].rng =
                                   [Start |-> start, End |-> end]],
                1, Len(c7.lambda)), LAMBDA c9 :
         [c9 EXCEPT !.lambda = <<>>])))))))

\* the loop of compile over the declarations of the files
RECURSIVE convertDecls(_, _, _)
convertDecls(c, ds, i) ==
    IF i > Len(ds) THEN c
    ELSE Then(IF /\ ds[i].node = "FuncDecl" /\ ~isInitFunc(ds[i])
                 /\ ds[i].used /\ ~ds[i].syscall
              THEN convertFuncDecl(c, ds[i], -1) ELSE c,
              LAMBDA c1 : convertDecls(c1, ds, i + 1))

\* emitDefault for the basic types
emitDefault(c, typ) ==
    CASE isNumber(typ) -> emitInt(c, 0)
      [] isString(typ) -> emitInstruction(c, opcode.PUSHDATA1, <<0>>)
      [] isBool(typ) -> emitBool(c, FALSE)
      [] OTHER -> emitOpcode(c, opcode.PUSHNULL)

\* the variables of one var declaration: value or default, then the store
RECURSIVE storeSpecs(_, _, _)
storeSpecs(c, n, i) ==
    IF i > Len(n.Names) THEN c
    ELSE Then(IF Len(n.Values) # 0 THEN Walk(c, n.Values[i])
              ELSE emitDefault(c, n.Names[i].typ), LAMBDA c1 :
         storeSpecs(emitStoreVar(c1, n.Names[i]), n, i + 1))

\* a const declaration is kept in c.constMap and emits nothing
VisitGenDecl(c, n) ==
    IF c.Err # "nil" \/ c.panic # "nil" \/ n.Tok = "CONST" THEN c
    ELSE storeSpecs(c, n, 1)

\* countGlobals: the names of the var declarations of the file
RECURSIVE countGlobals(_, _)
countGlobals(ds, i) ==
    IF i > Len(ds) THEN 0
    ELSE (IF ds[i].node = "GenDecl" /\ ds[i].Tok = "VAR"
          THEN Len(ds[i].Names) ELSE 0) + countGlobals(ds, i + 1)

\* convertGlobals: the general declarations of the file, in order
RECURSIVE convertGlobals(_, _, _)
convertGlobals(c, ds, i) ==
    IF i > Len(ds) THEN c
    ELSE convertGlobals(IF ds[i].node = "GenDecl" THEN VisitGenDecl(c, ds[i])
                        ELSE c, ds, i + 1)

\* convertInitFuncs: the init functions of the file, in order
RECURSIVE convertInitFuncs(_, _, _)
convertInitFuncs(c, ds, i) ==
    IF i > Len(ds) THEN c
    ELSE Then(IF ds[i].node = "FuncDecl" /\ isInitFunc(ds[i])
              THEN convertFuncDecl(c, ds[i], -1) ELSE c,
              LAMBDA c1 : convertInitFuncs(c1, ds, i + 1))

hasInitFunc(ds) ==
    \E i \in 1..Len(ds) : ds[i].node = "FuncDecl" /\ isInitFunc(ds[i])

\* the slots of the globals, their initialisers and the init functions
traverseGlobals(c, ds) ==
    LET n == countGlobals(ds, 1) IN
    IF n = 0 /\ ~hasInitFunc(ds) THEN c
    ELSE IF n > 255 THEN setErr(c, "too many global variables")
    ELSE Then(IF n # 0
              THEN emitInstruction(c, opcode.INITSSLOT, <<ToByte(n)>>)
              ELSE c, LAMBDA c1 :
         Then(convertGlobals(c1, ds, 1), LAMBDA c2 :
         [convertInitFuncs(c2, ds, 1) EXCEPT !.scope = NoDecl]))

compile(ds, iterNew) ==
    LET c0 == [newCodegen EXCEPT !.iterNew = iterNew]
        c1 == resolveFuncDecls(c0, ds, 1)
        c2 == traverseGlobals(c1, ds)
        c3 == IF countGlobals(ds, 1) > 0 \/ hasInitFunc(ds)
              THEN Then(emitOpcode(c2, opcode.RET), LAMBDA c :
                        [c EXCEPT !.initEndOffset = Len(c.prog)])
              ELSE c2
    IN convertDecls(c3, ds, 1)

----------------------------------------------------------------------------
(* The virtual machine that runs the bytes CodeGen returns.  The           *)
(* evaluation stack is a sequence with its top first; a call keeps the     *)
(* evaluation stack and saves the slots of the caller.  A system call      *)
(* takes no argument here, is logged in vm.trace if vm.log, and reports    *)
(* what the host answers: null or 1 for the API number 0, 0 or 1 for the   *)
(* other API numbers below FirstEcho, the API number itself from FirstEcho *)
(* on.                                                                     *)

Integer(n) == [t |-> "Integer", v |-> n]

Boolean(b) == [t |-> "Boolean", v |-> b]

Array(a) == [t |-> "Array", v |-> a]

\* a map is the sequence of its [k, v] entries in key order
MapItem(m) == [t |-> "Map", v |-> m]

Null == [t |-> "Null", v |-> 0]

\* a mutable and an immutable sequence of bytes
Buffer(b) == [t |-> "Buffer", v |-> b]

ByteString(b) == [t |-> "ByteString", v |-> b]

\* the bytes of a positive integer: little-endian two's complement of the
\* least length, so that the last byte has no sign bit
RECURSIVE PositiveBytes(_)
PositiveBytes(v) ==
    IF v < 128 THEN <<v>> ELSE <<v % 256>> \o PositiveBytes(v \div 256)

\* the bytes an item converts to; zero is the empty sequence
BytesOf(x) ==
    CASE x.t \in {"Buffer", "ByteString"} -> x.v
      [] x.t = "Integer" /\ x.v = 0 -> <<>>
      [] x.t = "Integer" /\ x.v > 0 -> PositiveBytes(x.v)
      [] x.t = "Integer" /\ x.v < 0 /\ x.v >= -128 -> <<x.v + 256>>

Pointer(a) == [t |-> "Pointer", v |-> a]

ToBool(x) ==
    CASE x.t = "Boolean" -> x.v
      [] x.t = "Integer" -> x.v # 0
      [] x.t = "Null" -> FALSE
      [] OTHER -> TRUE

FirstEcho == 10

SyscallAnswers(api) ==
    IF api >= FirstEcho THEN {Integer(api)}
    ELSE IF api = 0 THEN {Null, Integer(1)}
    ELSE {Integer(0), Integer(1)}

\* the evaluation stack may not grow beyond this many items
StackLimit == 16

RECURSIVE Reverse(_)
Reverse(q) == IF q = <<>> THEN <<>> ELSE Reverse(Tail(q)) \o <<Head(q)>>

\* the items of q, with new in the place of every item old: arrays and maps
\* are references, and here an array or a map is known by its content
SameItem(x, y) ==
    /\ x.t = y.t
    /\ IF x.t \in {"Array", "Map"}
       THEN /\ Len(x.v) = Len(y.v)
            /\ \A i \in 1..Len(x.v) :
                  IF x.t = "Map" THEN x.v[i].k.t = y.v[i].k.t /\ x.v[i].v.t = y.v[i].v.t
                  ELSE x.v[i].t = y.v[i].t
            /\ x.v = y.v
       ELSE x.v = y.v

Alias(q, old, new) ==
    [i \in DOMAIN q |-> IF SameItem(q[i], old) THEN new ELSE q[i]]

\* the machine m after the array or map old has become new
Mutate(m, old, new) ==
    [m EXCEPT !.estack = Alias(@, old, new),
              !.loc = Alias(@, old, new),
              !.args = Alias(@, old, new),
              !.istack = [i \in DOMAIN @ |->
                            [@[i] EXCEPT !.loc = Alias(@, old, new),
                                         !.args = Alias(@, old, new)]]]

\* log says whether the host keeps the trace of the system calls
newVM(stack, log) ==
    [state |-> "run", pc |-> 0, last |-> -1, estack |-> stack,
     loc |-> <<>>, args |-> <<>>, istack |-> <<>>, log |-> log,
     trace |-> <<>>]

\* the successor of machine m on program b when a system call is answered
\* with ans
Exec(m, b, ans) ==
    LET pc == m.pc
        atEnd == pc >= Len(b)
        op == IF atEnd THEN opcode.RET ELSE b[pc + 1]
        nip == IF atEnd THEN pc ELSE NextIP(b, pc)
        st == m.estack
        n == Len(st)
        rest(k) == SubSeq(st, k + 1, n)
        fault == [m EXCEPT !.state = "fault", !.last = pc]
        goto(t, stack) ==
            IF t < 0 \/ t > Len(b) \/ Len(stack) > StackLimit THEN fault
            ELSE [m EXCEPT !.pc = t, !.last = pc, !.estack = stack]
        next(stack) == goto(nip, stack)
        push(v) == next(<<v>> \o st)
        ints(k) == n >= k /\ \A i \in 1..k : st[i].t = "Integer"
        \* a is below b on the stack: the condition of the compare-and-jump
        cmp(a, c) ==
            CASE op \in {opcode.JMPEQ, opcode.JMPEQL} -> a = c
              [] op \in {opcode.JMPNE, opcode.JMPNEL} -> a # c
              [] op \in {opcode.JMPGT, opcode.JMPGTL} -> a > c
              [] op \in {opcode.JMPGE, opcode.JMPGEL} -> a >= c
              [] op \in {opcode.JMPLT, opcode.JMPLTL} -> a < c
              [] op \in {opcode.JMPLE, opcode.JMPLEL} -> a <= c
        arith(a, c) ==
            CASE op = opcode.ADD -> Integer(a + c)
              [] op = opcode.SUB -> Integer(a - c)
              [] op = opcode.MUL -> Integer(a * c)
              [] op = opcode.NUMEQUAL -> Boolean(a = c)
              [] op = opcode.NUMNOTEQUAL -> Boolean(a # c)
              [] op = opcode.LT -> Boolean(a < c)
              [] op = opcode.LTE -> Boolean(a <= c)
              [] op = opcode.GT -> Boolean(a > c)
              [] op = opcode.GTE -> Boolean(a >= c)
        slot(base) == IF op = base + 7 THEN b[pc + 2] ELSE op - base
    IN
    CASE op >= opcode.PUSH0 - 1 /\ op <= opcode.PUSH0 + 16 ->
            push(Integer(op - opcode.PUSH0))
      [] op = opcode.PUSHINT8 -> push(Integer(ToInt8(b[pc + 2])))
      [] op = opcode.PUSHNULL -> push(Null)
      [] op = opcode.PUSHDATA1 ->
            push(ByteString(SubSeq(b, pc + 3, pc + 2 + b[pc + 2])))
      [] op = opcode.PUSHA -> push(Pointer(JumpTarget(b, pc)))
      [] op = opcode.NOP -> next(st)
      [] op \in {opcode.JMP, opcode.JMPL} -> goto(JumpTarget(b, pc), st)
      [] op \in {opcode.JMPIF, opcode.JMPIFL} ->
            IF n < 1 THEN fault
            ELSE IF ToBool(st[1]) THEN goto(JumpTarget(b, pc), rest(1))
            ELSE next(rest(1))
      [] op \in {opcode.JMPIFNOT, opcode.JMPIFNOTL} ->
            IF n < 1 THEN fault
            ELSE IF ~ToBool(st[1]) THEN goto(JumpTarget(b, pc), rest(1))
            ELSE next(rest(1))
      [] op >= opcode.JMPEQ /\ op <= opcode.JMPLEL ->
            IF ~ints(2) THEN fault
            ELSE IF cmp(st[2].v, st[1].v) THEN goto(JumpTarget(b, pc), rest(2))
            ELSE next(rest(2))
      [] op \in {opcode.CALL, opcode.CALLL} ->
            [goto(JumpTarget(b, pc), st) EXCEPT
                !.istack = <<[pc |-> nip, loc |-> m.loc, args |-> m.args]>> \o @,
                !.loc = <<>>, !.args = <<>>]
      [] op = opcode.CALLA ->
            IF n < 1 \/ st[1].t # "Pointer" THEN fault
            ELSE [goto(st[1].v, rest(1)) EXCEPT
                !.istack = <<[pc |-> nip, loc |-> m.loc, args |-> m.args]>> \o @,
                !.loc = <<>>, !.args = <<>>]
      [] op = opcode.RET ->
            IF m.istack = <<>> THEN [m EXCEPT !.state = "halt", !.last = pc]
            ELSE [m EXCEPT !.pc = m.istack[1].pc, !.last = pc,
                           !.loc = m.istack[1].loc, !.args = m.istack[1].args,
                           !.istack = Tail(@)]
      [] op = opcode.SYSCALL ->
            IF m.log
            THEN [push(ans) EXCEPT
                    !.trace = Append(@, [api |-> b[pc + 2], val |-> ans])]
            ELSE push(ans)
      [] op = opcode.DROP -> IF n < 1 THEN fault ELSE next(rest(1))
      [] op = opcode.DUP -> IF n < 1 THEN fault ELSE push(st[1])
      [] op = opcode.OVER -> IF n < 2 THEN fault ELSE push(st[2])
      [] op = opcode.PICKOP ->
            IF ~ints(1) \/ st[1].v < 0 \/ n < st[1].v + 2 THEN fault
            ELSE next(<<st[st[1].v + 2]>> \o rest(1))
      [] op = opcode.SWAP ->
            IF n < 2 THEN fault ELSE next(<<st[2], st[1]>> \o rest(2))
      [] op = opcode.ROT ->
            IF n < 3 THEN fault ELSE next(<<st[3], st[1], st[2]>> \o rest(3))
      [] op = opcode.REVERSE3 ->
            IF n < 3 THEN fault ELSE next(<<st[3], st[2], st[1]>> \o rest(3))
      [] op = opcode.REVERSE4 ->
            IF n < 4 THEN fault
            ELSE next(<<st[4], st[3], st[2], st[1]>> \o rest(4))
      [] op = opcode.REVERSEN ->
            IF ~ints(1) \/ st[1].v < 0 \/ n < st[1].v + 1 THEN fault
            ELSE next(Reverse(SubSeq(st, 2, st[1].v + 1)) \o rest(st[1].v + 1))
      [] op = opcode.INITSLOT ->
            IF n < b[pc + 3] THEN fault
            ELSE [next(rest(b[pc + 3])) EXCEPT
                    !.loc = [i \in 1..b[pc + 2] |-> Null],
                    !.args = SubSeq(st, 1, b[pc + 3])]
      [] op >= opcode.LDLOC0 /\ op <= opcode.LDLOC0 + 7 ->
            IF slot(opcode.LDLOC0) >= Len(m.loc) THEN fault
            ELSE push(m.loc[slot(opcode.LDLOC0) + 1])
      [] op >= opcode.STLOC0 /\ op <= opcode.STLOC0 + 7 ->
            IF n < 1 \/ slot(opcode.STLOC0) >= Len(m.loc) THEN fault
            ELSE [next(rest(1)) EXCEPT !.loc[slot(opcode.STLOC0) + 1] = st[1]]
      [] op >= opcode.LDARG0 /\ op <= opcode.LDARG0 + 7 ->
            IF slot(opcode.LDARG0) >= Len(m.args) THEN fault
            ELSE push(m.args[slot(opcode.LDARG0) + 1])
      [] op >= opcode.STARG0 /\ op <= opcode.STARG0 + 7 ->
            IF n < 1 \/ slot(opcode.STARG0) >= Len(m.args) THEN fault
            ELSE [next(rest(1)) EXCEPT !.args[slot(opcode.STARG0) + 1] = st[1]]
      [] op = opcode.INC ->
            IF ~ints(1) THEN fault ELSE next(<<Integer(st[1].v + 1)>> \o rest(1))
      [] op = opcode.DEC ->
            IF ~ints(1) THEN fault ELSE next(<<Integer(st[1].v - 1)>> \o rest(1))
      [] op = opcode.NEGATE ->
            IF ~ints(1) THEN fault ELSE next(<<Integer(-st[1].v)>> \o rest(1))
      [] op = opcode.NOT ->
            IF n < 1 THEN fault ELSE next(<<Boolean(~ToBool(st[1]))>> \o rest(1))
      [] op \in {opcode.ADD, opcode.SUB, opcode.MUL, opcode.NUMEQUAL,
                 opcode.NUMNOTEQUAL, opcode.LT, opcode.LTE, opcode.GT,
                 opcode.GTE} ->
            IF ~ints(2) THEN fault
            ELSE next(<<arith(st[2].v, st[1].v)>> \o rest(2))
      [] op = opcode.EQUAL ->
            IF n < 2 THEN fault
            ELSE next(<<Boolean(st[1].t = st[2].t /\ st[1].v = st[2].v)>>
                      \o rest(2))
      [] op = opcode.ISNULL ->
            IF n < 1 THEN fault ELSE next(<<Boolean(st[1].t = "Null")>> \o rest(1))
      [] op = opcode.PACK ->
            IF ~ints(1) \/ st[1].v < 0 \/ n < st[1].v + 1 THEN fault
            ELSE next(<<Array(SubSeq(st, 2, st[1].v + 1))>> \o rest(st[1].v + 1))
      [] op = opcode.NEWARRAY0 -> push(Array(<<>>))
      [] op = opcode.SIZE ->
            IF n < 1 \/ st[1].t \notin {"Array", "Map", "Buffer", "ByteString"}
            THEN fault
            ELSE next(<<Integer(Len(st[1].v))>> \o rest(1))
      [] op = opcode.SUBSTR ->
            IF ~ints(2) \/ n < 3 \/ st[3].t \notin {"Buffer", "ByteString"}
            THEN fault
            ELSE IF st[1].v < 0 \/ st[2].v < 0
                    \/ st[1].v + st[2].v > Len(st[3].v)
            THEN fault
            ELSE next(<<Buffer(SubSeq(st[3].v, st[2].v + 1,
                                      st[2].v + st[1].v))>> \o rest(3))
      [] op = opcode.KEYS ->
            IF n < 1 \/ st[1].t # "Map" THEN fault
            ELSE next(<<Array([i \in 1..Len(st[1].v) |-> st[1].v[i].k])>>
                      \o rest(1))
      [] op = opcode.PICKITEM ->
            IF n < 2 THEN fault
            ELSE IF st[2].t = "Array"
            THEN (IF st[1].t # "Integer" \/ st[1].v < 0 \/ st[1].v >= Len(st[2].v)
                  THEN fault
                  ELSE next(<<st[2].v[st[1].v + 1]>> \o rest(2)))
            ELSE IF st[2].t = "Map"
            THEN (LET hits == {i \in 1..Len(st[2].v) :
                                 /\ st[2].v[i].k.t = st[1].t
                                 /\ st[2].v[i].k.v = st[1].v}
                  IN IF hits = {} THEN fault
                     ELSE next(<<st[2].v[CHOOSE i \in hits : TRUE].v>> \o rest(2)))
            ELSE fault
      [] op = opcode.SETITEM ->
            IF n < 3 THEN fault
            ELSE IF st[3].t = "Array"
            THEN (IF st[2].t # "Integer" \/ st[2].v < 0 \/ st[2].v >= Len(st[3].v)
                  THEN fault
                  ELSE Mutate(next(rest(3)), st[3],
                              Array([st[3].v EXCEPT ![st[2].v + 1] = st[1]])))
            ELSE fault
      [] op = opcode.NEWBUFFER ->
            IF ~ints(1) \/ st[1].v < 0 THEN fault
            ELSE next(<<Buffer([i \in 1..st[1].v |-> 0])>> \o rest(1))
      [] op = opcode.CAT ->
            IF n < 2 \/ \E i \in 1..2 :
                 \/ st[i].t \notin {"Buffer", "ByteString", "Integer"}
                 \/ (st[i].t = "Integer" /\ st[i].v < -128)
            THEN fault
            ELSE next(<<Buffer(BytesOf(st[2]) \o BytesOf(st[1]))>> \o rest(2))
      [] op = opcode.APPEND ->
            IF n < 2 \/ st[2].t # "Array" THEN fault
            ELSE Mutate(next(rest(2)), st[2], Array(Append(st[2].v, st[1])))
      [] op = opcode.CONVERT -> IF n < 1 THEN fault ELSE next(st)
      [] OTHER -> [m EXCEPT !.state = "unsupported", !.last = pc]

----------------------------------------------------------------------------
(* CodeGen on a typed AST, and the run of what it returns.                 *)

\* what CodeGen hands over from the codegen c
Emits(c) ==
    /\ cg' = c
    /\ prog' = c.prog
    /\ l' = c.l
    /\ funcs' = [i \in 1..Len(c.funcs) |-> c.funcs[i].rng]
    /\ err' = IF c.panic # "nil" THEN "panic" ELSE c.Err
    /\ phase' = IF c.Err # "nil" \/ c.panic # "nil" THEN "done" ELSE "emitted"
    /\ buf' = <<>>
    /\ UNCHANGED <<items, resolved, decls, vm>>
    /\ UNCHANGED hostVars

Compile ==
    /\ phase = "parsed"
    /\ \E iterNew \in BOOLEAN : \E c \in {compile(decls, iterNew)} : Emits(c)

\* one instruction of the machine on the returned bytes
Step ==
    /\ phase = "done"
    /\ err = "nil"
    /\ vm.state = "run"
    /\ LET isSyscall == vm.pc < Len(buf) /\ buf[vm.pc + 1] = opcode.SYSCALL
           answers == IF isSyscall THEN SyscallAnswers(buf[vm.pc + 2])
                      ELSE {Null}
       IN \E ans \in answers : vm' = Exec(vm, buf, ans)
    /\ UNCHANGED <<items, prog, l, funcs, resolved, buf, err, phase, decls, cg>>
    /\ UNCHANGED hostVars

NextRun == Compile \/ WriteJumps \/ Step

\* the state before CodeGen is called on the declarations ds, with the
\* machine loaded to enter the first function on the given stack
Parsed(ds, stack, log) ==
    /\ decls = ds
    /\ items = <<>>
    /\ prog = <<>>
    /\ l = <<>>
    /\ funcs = <<>>
    /\ resolved = <<>>
    /\ buf = <<>>
    /\ err = "nil"
    /\ phase = "parsed"
    /\ cg = newCodegen
    /\ vm = newVM(stack, log)
    /\ NoHost

----------------------------------------------------------------------------
(* Typed AST nodes.                                                        *)

BasicLit(typ, val) == [node |-> "BasicLit", tv |-> [typ |-> typ, val |-> val]]

Ident(name, vt, i, typ) ==
    [node |-> "Ident", name |-> name, vt |-> vt, i |-> i, typ |-> typ,
     tv |-> NoValue, isVar |-> TRUE]

\* the name of a declared function
FuncIdent(name) ==
    [node |-> "Ident", name |-> name, vt |-> "none", i |-> 0, typ |-> "func",
     tv |-> NoValue, isVar |-> FALSE]

Signature(params, variadic) == [params |-> params, variadic |-> variadic]

CallExpr(fun, args, sig, ellipsis) ==
    [node |-> "CallExpr", Fun |-> fun, Args |-> args, sig |-> sig,
     Ellipsis |-> ellipsis]

ReturnStmt(results) == [node |-> "ReturnStmt", Results |-> results]

BranchStmt(tok, label) == [node |-> "BranchStmt", tok |-> tok, Label |-> label]

LabeledStmt(label, stmt) ==
    [node |-> "LabeledStmt", Label |-> label, Stmt |-> stmt]

ForStmt(init, cond, post, body) ==
    [node |-> "ForStmt", Init |-> init, Cond |-> cond, Post |-> post,
     Body |-> body]

RangeStmt(key, value, x, isMap, body) ==
    [node |-> "RangeStmt", Key |-> key, Value |-> value, X |-> x,
     isMap |-> isMap, Body |-> body]

CaseClause(list, body) == [node |-> "CaseClause", List |-> list, Body |-> body]

SwitchStmt(tag, ttyp, body) ==
    [node |-> "SwitchStmt", Tag |-> tag, ttyp |-> ttyp, Body |-> body]

IfStmt(cond, body, else) ==
    [node |-> "IfStmt", Cond |-> cond, Body |-> body, Else |-> else]

BinaryExpr(op, x, y, typ) ==
    [node |-> "BinaryExpr", Op |-> op, X |-> x, Y |-> y, typ |-> typ,
     tv |-> NoValue]

UnaryExpr(op, x) == [node |-> "UnaryExpr", Op |-> op, X |-> x]

\* *x, where isStruct says whether getStruct finds a struct type for x
StarExpr(x, isStruct) == [node |-> "StarExpr", X |-> x, isStruct |-> isStruct]

AssignStmt(lhs, tok, rhs) ==
    [node |-> "AssignStmt", Lhs |-> lhs, Tok |-> tok, Rhs |-> rhs,
     rtyp |-> "int"]

\* x.f, the field number field of the struct x
FieldOf(x, field) ==
    [node |-> "SelectorExpr", pkgVar |-> FALSE, isStruct |-> TRUE, X |-> x,
     field |-> field, Sel |-> NilNode, tv |-> NoValue]

\* x[low:high]; NilNode is a bound that is left out
SliceExpr(x, low, high) ==
    [node |-> "SliceExpr", X |-> x, Low |-> low, High |-> high]

\* a function literal with the type and the body of decl
FuncLit(decl) == [node |-> "FuncLit", decl |-> decl]

\* an expression the type checker folded to the constant val of type typ
Folded(e, typ, val) == [e EXCEPT !.tv = [typ |-> typ, val |-> val]]

NilIdent == Ident("nil", "none", 0, "nil")

FuncDecl(name, sizeLoc, sizeArg, named, body) ==
    [node |-> "FuncDecl", name |-> name, sizeLoc |-> sizeLoc, sizeArg |-> sizeArg,
     named |-> named, Body |-> body, used |-> TRUE, syscall |-> FALSE,
     known |-> TRUE, api |-> 0, toStruct |-> FALSE]

\* a function of an interop package that lowers to the system call api
SyscallDecl(name, api) ==
    [node |-> "FuncDecl", name |-> name, sizeLoc |-> 0, sizeArg |-> 0, named |-> <<>>,
     Body |-> <<>>, used |-> TRUE, syscall |-> TRUE, known |-> TRUE,
     api |-> api, toStruct |-> FALSE]

\* runtime.ask(): asks the host, which answers 0 or 1
AskDecl == SyscallDecl("runtime.ask", 1)

\* pkg.Name or x.Name: the callee of a package function or of a method
SelectorFun(name, isMethod, x) ==
    [node |-> "SelectorExpr", name |-> name, isMethod |-> isMethod, X |-> x]

Ask ==
    CallExpr(SelectorFun("runtime.ask", FALSE, NilNode), <<>>,
             Signature(0, FALSE), FALSE)

----------------------------------------------------------------------------
(* Functions of nested for, range and switch statements.                   *)
(*                                                                         *)
(*   func f(s []int, m map[int]int) int {                                  *)
(*       var k, v int                                                      *)
(*       [L:] <for | range s | range m | switch> { ... }                   *)
(*       return 9                                                          *)
(*   }                                                                     *)
(*                                                                         *)
(* Every body ends in a return, a break or a continue, labelled or not, as *)
(* Go allows it at that place.                                             *)

\* the nesting depth of the statements of a function body
MaxDepth == 2

ArgS == Ident("s", "varArgument", 0, "slice")

ArgM == Ident("m", "varArgument", 1, "map")

LocK == Ident("k", "varLocal", 0, "int")

LocV == Ident("v", "varLocal", 1, "int")

Return9 == ReturnStmt(<<BasicLit("int", 9)>>)

\* what f is called with: s = [7, 8] and m = {1: 5}, first argument on top
StmtArgs ==
    <<Array(<<Integer(7), Integer(8)>>),
      MapItem(<<[k |-> Integer(1), v |-> Integer(5)]>>)>>

\* the jumps and returns allowed where break / continue may be used and
\* the statement labelled L around is lbl ("none", "loop" or "switch")
Leaves(canBreak, canContinue, lbl) ==
    {Return9}
    \cup (IF canBreak THEN {BranchStmt("BREAK", NoName)} ELSE {})
    \cup (IF canContinue THEN {BranchStmt("CONTINUE", NoName)} ELSE {})
    \cup (IF lbl # "none" THEN {BranchStmt("BREAK", "L")} ELSE {})
    \cup (IF lbl = "loop" THEN {BranchStmt("CONTINUE", "L")} ELSE {})

\* the statements that own a stack label, around the body
Compound(body, kind) ==
    CASE kind = "for" -> ForStmt(NilNode, Ask, NilNode, body)
      [] kind = "range s" -> RangeStmt(NilNode, NilNode, ArgS, FALSE, body)
      [] kind = "range k, v s" -> RangeStmt(LocK, LocV, ArgS, FALSE, body)
      [] kind = "range m" -> RangeStmt(NilNode, NilNode, ArgM, TRUE, body)
      [] kind = "range k, v m" -> RangeStmt(LocK, LocV, ArgM, TRUE, body)
      [] kind = "switch" ->
           SwitchStmt(Ask, "int",
                      <<CaseClause(<<BasicLit("int", 1)>>, body),
                        CaseClause(<<>>, <<>>)>>)

LoopKinds == {"for", "range s", "range k, v s", "range m", "range k, v m"}

Kinds == LoopKinds \cup {"switch"}

RECURSIVE Bodies(_, _, _, _)
Bodies(d, canBreak, canContinue, lbl) ==
    LET leaves == Leaves(canBreak, canContinue, lbl)
        inner == IF d = 0 THEN {}
                 ELSE {Compound(b, k) :
                         b \in Bodies(d - 1, TRUE, TRUE, lbl), k \in LoopKinds}
                      \cup {Compound(b, "switch") :
                              b \in Bodies(d - 1, TRUE, canContinue, lbl)}
    IN {<<s>> : s \in leaves}
       \cup {<<c>> : c \in inner}
       \cup {<<c, s>> : c \in inner, s \in leaves}

\* the outermost statement, with and without the label L
Outermost ==
    {Compound(b, k) : b \in Bodies(MaxDepth - 1, TRUE, TRUE, "none"),
                      k \in LoopKinds}
    \cup {Compound(b, "switch") : b \in Bodies(MaxDepth - 1, TRUE, FALSE, "none")}
    \cup {LabeledStmt("L", Compound(b, k)) :
            b \in Bodies(MaxDepth - 1, TRUE, TRUE, "loop"), k \in LoopKinds}
    \cup {LabeledStmt("L", Compound(b, "switch")) :
            b \in Bodies(MaxDepth - 1, TRUE, FALSE, "switch")}

StmtPrograms ==
    {<<FuncDecl("f", 2, 2, <<>>, <<st, Return9>>), AskDecl>> : st \in Outermost}

InitStmt == \E ds \in StmtPrograms : Parsed(ds, StmtArgs, FALSE)

SpecStmt == InitStmt /\ [][NextRun]_vars

----------------------------------------------------------------------------
(* Return, break and continue under nested for, range and switch.          *)

\* the machine is about to execute the instruction emitted at address a,
\* short being the addresses of the instructions pass 2 rewrote
At(short, a) == vm.state = "run" /\ vm.pc = ShiftedBy(short, a)

Notes(kinds) == {i \in 1..Len(cg.stmts) : cg.stmts[i].kind \in kinds}

Owners == Notes({"ForStmt", "RangeStmt", "SwitchStmt"})

Height == Len(vm.estack)

\* C7: a return under any nesting of for, range and switch statements
\* starts with the values of all of them on the stack, has dropped every
\* one of them when it pushes its result, and executes RET with exactly the
\* returned value on the stack; no run of the function faults.
C7_ReturnStackExact ==
    Returned =>
      LET short == FitsInt8(resolved) IN
      /\ vm.state \notin {"fault", "unsupported"}
      /\ \A i \in Notes({"ReturnStmt"}) :
            LET nt == cg.stmts[i] IN
            /\ At(short, nt.start) => Height = nt.sz
            /\ At(short, nt.after - 1) => vm.estack = <<>>
            /\ At(short, nt.after) => /\ buf[vm.pc + 1] = opcode.RET
                                      /\ vm.estack = <<Integer(9)>>
      /\ (vm.state = "run" /\ vm.pc < Len(buf) /\ buf[vm.pc + 1] = opcode.RET)
            => vm.estack = <<Integer(9)>>

\* a return under a range over a map in a range over a map is at its RET,
\* after the drop of eight values
C7_Witness ==
    /\ Returned
    /\ \E i \in Notes({"ReturnStmt"}) :
          /\ cg.stmts[i].sz = 8
          /\ At(FitsInt8(resolved), cg.stmts[i].after)
          /\ vm.last = Shifted(cg.stmts[i].after - 1)
          /\ vm.estack = <<Integer(9)>>

\* the statement a break or continue note names: the owner of that name
\* the jump lies in
TargetOf(b) ==
    CHOOSE i \in Owners :
       /\ cg.stmts[i].name = b.name
       /\ cg.stmts[i].start <= b.start
       /\ b.after < cg.stmts[i].after

\* the values a range statement holds, index on top, when the index is
\* that of an element
RangeValues(sz) ==
    /\ Height >= sz
    /\ vm.estack[1].t = "Integer"
    /\ vm.estack[1].v \in 0..(vm.estack[2].v - 1)
    /\ IF sz = 3
       THEN /\ vm.estack[3] = StmtArgs[1]
            /\ vm.estack[2] = Integer(Len(StmtArgs[1].v))
       ELSE /\ vm.estack[4] = StmtArgs[2]
            /\ vm.estack[3] =
                 Array([j \in 1..Len(StmtArgs[2].v) |-> StmtArgs[2].v[j].k])
            /\ vm.estack[2] = Integer(Len(StmtArgs[2].v))

\* C8: at the jump of a break or continue exactly the values of the
\* statements inside the target are gone; the end label of a statement is
\* reached with its own values on the stack, the statement after it at the
\* height the statement started with, and the post label of a loop with
\* the values of the loop as an iteration leaves them.
C8_BranchStack ==
    (Returned /\ vm.state = "run") =>
      LET short == FitsInt8(resolved) IN
      /\ \A i \in Notes({"BREAK", "CONTINUE"}) :
            LET b == cg.stmts[i]
                t == cg.stmts[TargetOf(b)]
            IN /\ At(short, b.after) => Height = t.base + t.sz
               /\ At(short, b.start) => Height = t.base + t.sz + b.sz
      /\ \A i \in Owners :
            LET t == cg.stmts[i] IN
            /\ At(short, t.start) => Height = t.base
            /\ At(short, l[t.end + 1]) => Height = t.base + t.sz
            /\ At(short, t.after) => Height = t.base
            /\ (t.kind # "SwitchStmt" /\ At(short, l[t.post + 1])) =>
                  /\ Height = t.base + t.sz
                  /\ t.kind = "RangeStmt" => RangeValues(t.sz)

\* the jump of a break or continue that dropped n values has just been
\* taken to the label of its target: the end label for a break, the post
\* label for a continue
Jumped(tok, n, labelled) ==
    /\ Returned
    /\ \E i \in Notes({tok}) :
          LET b == cg.stmts[i]
              t == cg.stmts[TargetOf(b)]
              short == FitsInt8(resolved)
          IN /\ b.sz = n
             /\ labelled <=> b.name = "L"
             /\ vm.last = ShiftedBy(short, b.after)
             /\ At(short, l[(IF tok = "BREAK" THEN t.end ELSE t.post) + 1])
             /\ Height = t.base + t.sz

\* a labelled break out of a range over a map has dropped the four values
\* of that range and reached the end label of the labelled statement
C8_Witness == Jumped("BREAK", 4, TRUE)

----------------------------------------------------------------------------
(* Boolean expressions.  The expression e is emitted as a statement does   *)
(* it, emitBoolExpr(e, needJump, cond, label), with a RET where the code   *)
(* falls through and a RET at the label:                                   *)
(*                                                                         *)
(*       <e>; RET; label: RET                                              *)
(*                                                                         *)
(* The operands are calls of interop functions, which the host logs,       *)
(* constants, negations, comparisons and comparisons with nil.             *)

\* the nesting depth of && and || over calls
MaxBoolDepth == 2

\* runtime.askN(): asks the host, which answers 0 or 1
AskN(i) ==
    CallExpr(SelectorFun("runtime.ask" \o ToString(i), FALSE, NilNode), <<>>,
             Signature(0, FALSE), FALSE)

\* runtime.find(): the host answers null or 1
Find ==
    CallExpr(SelectorFun("runtime.find", FALSE, NilNode), <<>>,
             Signature(0, FALSE), FALSE)

HostDecls ==
    <<SyscallDecl("runtime.find", 0), SyscallDecl("runtime.ask1", 1),
      SyscallDecl("runtime.ask2", 2)>>

BoolConst(b) ==
    Folded(Ident(IF b THEN "true" ELSE "false", "none", 0, "bool"), "bool", b)

Logical == {"LAND", "LOR"}

Calls == {AskN(1), AskN(2)}

\* one operand of every kind
Operands ==
    Calls
    \cup {BoolConst(TRUE), BoolConst(FALSE), UnaryExpr("NOT", AskN(1)),
          BinaryExpr("LSS", AskN(1), AskN(2), "int"),
          BinaryExpr("EQL", AskN(2), BasicLit("int", 1), "int"),
          BinaryExpr("EQL", AskN(1), AskN(2), "string"),
          BinaryExpr("EQL", Find, NilIdent, "int"),
          BinaryExpr("NEQ", NilIdent, Find, "int"),
          Folded(BinaryExpr("LOR", BoolConst(FALSE), BoolConst(TRUE), "bool"),
                 "bool", TRUE)}

RECURSIVE Trees(_)
Trees(d) ==
    IF d = 0 THEN Calls
    ELSE Calls \cup {BinaryExpr(op, x, y, "bool") :
                       op \in Logical, x \in Trees(d - 1), y \in Trees(d - 1)}

BoolExprs ==
    Trees(MaxBoolDepth)
    \cup Operands
    \cup {BinaryExpr(op, x, y, "bool") :
            op \in Logical, x \in Operands, y \in Operands}

\* value context, jump on true and jump on false
Contexts ==
    {[needJump |-> FALSE, cond |-> FALSE], [needJump |-> TRUE, cond |-> TRUE],
     [needJump |-> TRUE, cond |-> FALSE]}

\* the function whose body is the expression e, with the context it is
\* emitted in
CondDecl(e, ctx) == ctx @@ FuncDecl("f", 0, 0, <<>>, <<e>>)

\* emitBoolExpr as a statement uses it
emitCond(ds) ==
    Then(resolveFuncDecls(newCodegen, ds, 1), LAMBDA c0 :
    Then(newLabel(c0), LAMBDA r :
    Then(emitBoolExpr(r.c, ds[1].Body[1], ds[1].needJump, ds[1].cond, r.l),
         LAMBDA c1 :
    emitOpcode(setLabel(emitOpcode(
        addNote(c1, note("Cond", NoName, Len(r.c.prog), Len(c1.prog),
                         0, 0, r.l, -1)),
        opcode.RET), r.l), opcode.RET))))

EmitCond ==
    /\ phase = "parsed"
    /\ \E c \in {emitCond(decls)} : Emits(c)

NextBool == EmitCond \/ WriteJumps \/ Step

InitBool ==
    \E e \in BoolExprs, ctx \in Contexts :
       Parsed(<<CondDecl(e, ctx)>> \o HostDecls, <<>>, TRUE)

SpecBool == InitBool /\ [][NextBool]_vars

\* the API number of the interop function the call e names
ApiOf(e) ==
    decls[CHOOSE i \in 1..Len(decls) : decls[i].name = e.Fun.name].api

\* the evaluation of e by the rules of Go on the answers tr of the host:
\* whether tr starts with the answers e asks for, in the order e asks for
\* them, the value of e and the answers left
RECURSIVE GoValue(_, _)
GoValue(e, tr) ==
    LET bad == [ok |-> FALSE, v |-> Null, rest |-> tr]
        val(v, rest) == [ok |-> TRUE, v |-> v, rest |-> rest]
    IN
    CASE e.node = "CallExpr" ->
           IF tr # <<>> /\ Head(tr).api = ApiOf(e)
           THEN val(Head(tr).val, Tail(tr)) ELSE bad
      [] e.node = "BasicLit" -> val(Integer(e.tv.val), tr)
      [] e.node = "Ident" ->
           IF e.name = "nil" THEN val(Null, tr) ELSE val(Boolean(e.tv.val), tr)
      [] e.node = "UnaryExpr" ->
           LET x == GoValue(e.X, tr) IN
           IF x.ok THEN val(Boolean(~ToBool(x.v)), x.rest) ELSE bad
      [] e.node = "BinaryExpr" /\ e.tv.typ # "none" ->
           val(Boolean(e.tv.val), tr)
      [] e.node = "BinaryExpr" /\ e.tv.typ = "none" ->
           LET x == GoValue(e.X, tr)
               y == GoValue(e.Y, x.rest)
               short == e.Op = "LOR"
           IN IF ~x.ok THEN bad
              ELSE IF e.Op \in Logical /\ ToBool(x.v) = short
              THEN val(Boolean(short), x.rest)
              ELSE IF ~y.ok THEN bad
              ELSE CASE e.Op \in Logical -> val(Boolean(ToBool(y.v)), y.rest)
                     [] e.Op = "LSS" -> val(Boolean(x.v.v < y.v.v), y.rest)
                     [] e.Op = "EQL" -> val(Boolean(x.v = y.v), y.rest)
                     [] e.Op = "NEQ" -> val(Boolean(x.v # y.v), y.rest)

\* the emitted expression has been run to one of the two RET
Decided == Returned /\ vm.state = "halt"

\* the run left through the RET at the label
JumpTaken == vm.last = Shifted(l[cg.stmts[1].end + 1])

FellThrough == vm.last = Shifted(cg.stmts[1].after)

\* C9: when the code of an expression over && and || has run, the host was
\* asked for exactly the operands Go evaluates, in Go's order; in value
\* context the stack holds one item, true or false as the expression, and
\* in jump context the stack is empty and the jump to the label was taken
\* exactly when the expression has the requested value.  No run faults.
C9_ShortCircuit ==
    Returned =>
      /\ vm.state \notin {"fault", "unsupported"}
      /\ vm.state = "halt" =>
           LET d == decls[1]
               go == GoValue(d.Body[1], vm.trace)
           IN /\ go.ok
              /\ go.rest = <<>>
              /\ JumpTaken \/ FellThrough
              /\ IF d.needJump
                 THEN /\ vm.estack = <<>>
                      /\ JumpTaken <=> (ToBool(go.v) = d.cond)
                 ELSE /\ Len(vm.estack) = 1
                      /\ ToBool(vm.estack[1]) = ToBool(go.v)
                      /\ FellThrough

\* (ask1() && ask2()) || ... in jump-on-true context: the left operand of
\* && was false, ask2 was not asked, the right operand of || was true and
\* the jump was taken
C9_Witness ==
    /\ Decided
    /\ decls[1].needJump /\ decls[1].cond
    /\ decls[1].Body[1] =
         BinaryExpr("LOR", BinaryExpr("LAND", AskN(1), AskN(2), "bool"),
                    AskN(2), "bool")
    /\ vm.trace = <<[api |-> 1, val |-> Integer(0)],
                    [api |-> 2, val |-> Integer(1)]>>
    /\ JumpTaken
    /\ vm.estack = <<>>


----------------------------------------------------------------------------
(* Calls of functions, methods and function values.                        *)
(*                                                                         *)
(*   func main(r T) any { return g(e1(), ..., en()) }                      *)
(*   func main(r T) any { return r.g(e1(), ..., en()) }                    *)
(*   func main(r T) any { f := func(...) any {...}; return f(e1(), ...) }  *)
(*                                                                         *)
(* ej() is a call of the host that answers FirstEcho + j and is logged.    *)
(* The callee declares params parameters, the last one variadic or not,   *)
(* and returns one of its argument slots.  main is entered with r = 5 on  *)
(* top of the stack and 6 below it.                                        *)

\* the parameters a callee declares, the variadic one included
MaxParams == 4

\* the arguments of a call
MaxArgs == 6

Echo(j) ==
    CallExpr(SelectorFun("runtime.echo" \o ToString(j), FALSE, NilNode), <<>>,
             Signature(0, FALSE), FALSE)

EchoDecls(n) ==
    [j \in 1..n |-> SyscallDecl("runtime.echo" \o ToString(j), FirstEcho + j)]

CallKinds == {"func", "method", "var"}

\* params, variadic, ellipsis and the number of arguments, as the type
\* checker accepts them
CallShapes ==
    {sh \in [kind : CallKinds, params : 0..MaxParams, variadic : BOOLEAN,
             ellipsis : BOOLEAN, nargs : 0..MaxArgs] :
       IF ~sh.variadic THEN ~sh.ellipsis /\ sh.nargs = sh.params
       ELSE /\ sh.params >= 1
            /\ IF sh.ellipsis THEN sh.nargs = sh.params
               ELSE sh.nargs >= sh.params - 1}

\* countArgs of the callee: the receiver and the parameters
sizeArgOf(sh) == sh.params + (IF sh.kind = "method" THEN 1 ELSE 0)

Receiver == Ident("r", "varArgument", 0, "T")

\* the callee returns its argument slot ret, or 1 if it has no argument
CalleeDecl(name, sh, ret) ==
    FuncDecl(name, 0, sizeArgOf(sh), <<>>,
             <<ReturnStmt(<<IF sizeArgOf(sh) = 0 THEN BasicLit("int", 1)
                            ELSE Ident("a", "varArgument", ret, "int")>>)>>)

CallOf(fun, sh) ==
    CallExpr(fun, [j \in 1..sh.nargs |-> Echo(j)],
             Signature(sh.params, sh.variadic), sh.ellipsis)

CallProgram(sh, ret) ==
    CASE sh.kind = "func" ->
           <<FuncDecl("main", 0, 1, <<>>,
                      <<ReturnStmt(<<CallOf(FuncIdent("g"), sh)>>)>>),
             CalleeDecl("g", sh, ret)>>
      [] sh.kind = "method" ->
           <<FuncDecl("main", 0, 1, <<>>,
                      <<ReturnStmt(<<CallOf(SelectorFun("T.g", TRUE, Receiver),
                                            sh)>>)>>),
             CalleeDecl("T.g", sh, ret)>>
      [] sh.kind = "var" ->
           <<FuncDecl("main", 1, 1, <<>>,
                      <<AssignStmt(<<Ident("f", "varLocal", 0, "func")>>,
                                   "DEFINE",
                                   <<FuncLit(CalleeDecl("lit", sh, ret))>>),
                        ReturnStmt(<<CallOf(Ident("f", "varLocal", 0, "func"),
                                            sh)>>)>>)>>

CallPrograms ==
    {CallProgram(sh, ret) \o EchoDecls(sh.nargs) :
       sh \in CallShapes, ret \in 0..MaxParams}

\* main(5) on a stack that holds 6
CallArgs == <<Integer(5), Integer(6)>>

InitCall ==
    \E ds \in {p \in CallPrograms :
                 LET b == p[1].Body
                     callee == IF Len(b) = 2 THEN b[1].Rhs[1].decl ELSE p[2]
                     res == callee.Body[1].Results[1]
                 IN res.node = "Ident" => res.i < callee.sizeArg} :
       Parsed(ds, CallArgs, TRUE)

SpecCall == InitCall /\ [][NextRun]_vars

\* the call of main, its callee and the slot the callee returns
TheCall == decls[1].Body[Len(decls[1].Body)].Results[1]

IsMethodCall == TheCall.Fun.node = "SelectorExpr"

TheCallee ==
    IF Len(decls[1].Body) = 2 THEN decls[1].Body[1].Rhs[1].decl ELSE decls[2]

\* the value of the j-th argument of the call
SourceArg(j) == Integer(FirstEcho + j)

\* what Go passes: the receiver, the arguments of the parameters that are
\* not variadic and, for a variadic callee called without an ellipsis, the
\* slice of the remaining arguments
GoArgs ==
    LET n == Len(TheCall.Args)
        packs == TheCall.sig.variadic /\ ~TheCall.Ellipsis
        fixed == IF packs THEN TheCall.sig.params - 1 ELSE n
    IN (IF IsMethodCall THEN <<CallArgs[1]>> ELSE <<>>)
       \o [j \in 1..fixed |-> SourceArg(j)]
       \o (IF packs
           THEN <<Array([j \in 1..(n - fixed) |-> SourceArg(fixed + j)])>>
           ELSE <<>>)

\* the host has answered the arguments 1..n, in this order
Evaluated(n) ==
    vm.trace = [j \in 1..n |-> [api |-> FirstEcho + j, val |-> SourceArg(j)]]

\* the machine has just executed an instruction op
Just(ops) == vm.last >= 0 /\ vm.last < Len(buf) /\ buf[vm.last + 1] \in ops

Entered == vm.state = "run" /\ Just({opcode.CALL, opcode.CALLL, opcode.CALLA})

Bound == vm.state = "run" /\ Just({opcode.INITSLOT}) /\ vm.istack # <<>>

\* C10: a call of a function, a method or a function value evaluates its
\* arguments from left to right; the callee is entered with the first
\* argument (the receiver of a method) on top of the stack and the others
\* below it in source order, so that its argument slot k holds the k-th
\* of them; a variadic callee called without an ellipsis gets, as its last
\* argument, one array of the arguments from the variadic parameter on, in
\* source order, which is empty if there is none
C10_ArgumentOrder ==
    Returned =>
      /\ vm.state \notin {"fault", "unsupported"}
      /\ Entered => /\ Evaluated(Len(TheCall.Args))
                    /\ vm.estack = GoArgs \o <<CallArgs[2]>>
      /\ Bound => /\ vm.args = GoArgs
                  /\ vm.estack = <<CallArgs[2]>>
      /\ vm.state = "halt" =>
           LET res == TheCallee.Body[1].Results[1] IN
           /\ Evaluated(Len(TheCall.Args))
           /\ vm.estack = <<IF res.node = "Ident" THEN GoArgs[res.i + 1]
                            ELSE Integer(1), CallArgs[2]>>

\* a method of three parameters, the last one variadic, called with five
\* arguments: the callee holds the receiver, two arguments and the array
\* of the other three
C10_Witness ==
    /\ Returned
    /\ Bound
    /\ IsMethodCall
    /\ TheCall.sig = Signature(3, TRUE)
    /\ ~TheCall.Ellipsis
    /\ Len(TheCall.Args) = 5
    /\ vm.args = <<Integer(5), SourceArg(1), SourceArg(2),
                   Array(<<SourceArg(3), SourceArg(4), SourceArg(5)>>)>>

\* a variadic function called with no argument for its variadic parameter
C10_WitnessEmpty ==
    /\ Returned
    /\ Bound
    /\ TheCall.sig = Signature(2, TRUE)
    /\ Len(TheCall.Args) = 1
    /\ vm.args = <<SourceArg(1), Array(<<>>)>>


----------------------------------------------------------------------------
(* Programs with hard errors.                                              *)
(*                                                                         *)
(*   func f1(...) int { var ...; return e1 }                               *)
(*   func f2(...) int { var ...; return e2 }                               *)
(*                                                                         *)
(* with 0, 1 or 256 local variables, 0 or 256 arguments, and e one of     *)
(*   9     -1     *p     1 &^ 2     *p + 2     *p &^ 2     <-*p            *)
(* where p points to a value that is not a struct.                        *)

\* the functions of a program
MaxDecls == 2

\* *p, p a pointer to an int or to a channel
Deref == StarExpr(Ident("p", "varGlobal", 0, "pointer"), FALSE)

ErrExprs ==
    {BasicLit("int", 9),
     UnaryExpr("SUB", BasicLit("int", 1)),
     Deref,
     BinaryExpr("AND_NOT", BasicLit("int", 1), BasicLit("int", 2), "int"),
     BinaryExpr("ADD", Deref, BasicLit("int", 2), "int"),
     BinaryExpr("AND_NOT", Deref, BasicLit("int", 2), "int"),
     UnaryExpr("ARROW", Deref)}

\* countLocals and countArgs of a function
LocalCounts == {0, 1, 256}

ArgCounts == {0, 256}

ErrFuncs ==
    {FuncDecl("f", sizeLoc, sizeArg, <<>>, <<ReturnStmt(<<e>>)>>) :
       sizeLoc \in LocalCounts, sizeArg \in ArgCounts, e \in ErrExprs}

\* the functions f1, f2, ... of a program
Renamed(fs) ==
    [i \in 1..Len(fs) |-> [fs[i] EXCEPT !.name = "f" \o ToString(i)]]

RECURSIVE SeqsOf(_, _)
SeqsOf(S, n) ==
    IF n = 0 THEN {<<>>}
    ELSE {<<x>> \o q : x \in S, q \in SeqsOf(S, n - 1)}

ErrPrograms ==
    {Renamed(fs) : fs \in UNION {SeqsOf(ErrFuncs, n) : n \in 1..MaxDecls}}

InitErr == \E ds \in ErrPrograms : Parsed(ds, <<>>, FALSE)

SpecErr == InitErr /\ [][NextRun]_vars

\* CodeGen is over and c.prog.Err was assigned at least once
Failed == phase = "done" /\ cg.errs # <<>>

\* C1 as stated: once a step of code generation has recorded a hard error,
\* no later step replaces it and none appends bytes to the program buffer:
\* the error CodeGen returns is the first one recorded, the buffer has the
\* length it had when that error was recorded, and no bytecode is returned
C1_FirstErrorLatched ==
    Failed =>
      /\ err = Head(cg.errs).e
      /\ Len(cg.prog) = Head(cg.errs).len
      /\ buf = <<>>


----------------------------------------------------------------------------
(* Assignment of the results of a call.                                    *)
(*                                                                         *)
(*   func main(s T) { var a1, a2, a3 int; t1, ..., tk = f() }              *)
(*   func f() (int, ...) { return 11, ..., 10 + k }                        *)
(*   func f() (n1, ... int) { n1, ..., nk = 11, ..., 10 + k; return }      *)
(*                                                                         *)
(* where the target ti is the variable ai, the blank identifier or the     *)
(* field number i of s.  main is entered with s, a struct of zeros.       *)

\* the results of a function
MaxResults == 3

Result(i) == BasicLit("int", 10 + i)

Blank == Ident("_", "none", 0, "int")

ArgStruct == Ident("s", "varArgument", 0, "struct")

TargetsAt(i) ==
    {Ident("a" \o ToString(i), "varLocal", i - 1, "int"), Blank,
     FieldOf(ArgStruct, i - 1)}

RECURSIVE TargetLists(_, _)
TargetLists(i, k) ==
    IF i > k THEN {<<>>}
    ELSE {<<t>> \o q : t \in TargetsAt(i), q \in TargetLists(i + 1, k)}

\* f with an explicit return, and f with named results and a bare return
ReturnsExplicit(k) ==
    FuncDecl("f", 0, 0, <<>>, <<ReturnStmt([i \in 1..k |-> Result(i)])>>)

NamedResults(k) ==
    [i \in 1..k |-> Ident("n" \o ToString(i), "varLocal", i - 1, "int")]

ReturnsNamed(k) ==
    FuncDecl("f", k, 0, NamedResults(k),
             <<AssignStmt(NamedResults(k), "ASSIGN", [i \in 1..k |-> Result(i)]),
               ReturnStmt(<<>>)>>)

CallF == CallExpr(FuncIdent("f"), <<>>, Signature(0, FALSE), FALSE)

AssignPrograms ==
    {<<FuncDecl("main", MaxResults, 1, <<>>,
                <<AssignStmt(ts, "ASSIGN", <<CallF>>), ReturnStmt(<<>>)>>), f>> :
       ts \in UNION {TargetLists(1, k) : k \in 1..MaxResults},
       f \in UNION {{ReturnsExplicit(k), ReturnsNamed(k)} : k \in 1..MaxResults}}

\* s, a struct of MaxResults fields
AssignArgs == <<Array([i \in 1..MaxResults |-> Integer(0)])>>

InitAssign ==
    \E ds \in {p \in AssignPrograms :
                 Len(p[1].Body[1].Lhs) = Len(p[2].Body[Len(p[2].Body)].Results)
                 \/ Len(p[1].Body[1].Lhs) = Len(p[2].named)} :
       Parsed(ds, AssignArgs, FALSE)

SpecAssign == InitAssign /\ [][NextRun]_vars

\* the targets of the assignment of main
Targets11 == decls[1].Body[1].Lhs

\* the variable of slot j and the field number j of s are targets
IsTarget(j) ==
    \E i \in 1..Len(Targets11) :
       Targets11[i].node = "Ident" /\ Targets11[i].name # "_" /\ i = j

IsFieldTarget(j) ==
    \E i \in 1..Len(Targets11) : Targets11[i].node = "SelectorExpr" /\ i = j

\* C11 as stated: when a call returning k values is assigned to k targets,
\* the code is generated, and after it has run the i-th target holds the
\* i-th result of the return statement that f executed (the i-th result
\* expression or the i-th named result); a blank target discards its value
\* and shifts no other: every other variable and field is as it was and
\* nothing is left on the stack
C11_ResultsAssigned ==
    phase = "done" =>
      /\ err = "nil"
      /\ vm.state \notin {"fault", "unsupported"}
      /\ vm.state = "halt" =>
           /\ vm.estack = <<>>
           /\ \A j \in 1..MaxResults :
                /\ vm.loc[j] = IF IsTarget(j) THEN Integer(10 + j) ELSE Null
                /\ vm.args[1].v[j] = IF IsFieldTarget(j) THEN Integer(10 + j)
                                     ELSE Integer(0)


----------------------------------------------------------------------------
(* Slices of a byte slice.                                                 *)
(*                                                                         *)
(*   const cl, ch = ...                                                    *)
(*   func main(a []byte, x, y int) []byte { return a[lo:hi] }              *)
(*                                                                         *)
(* where lo is left out or is a literal, the constant cl or the variable  *)
(* x, and hi likewise, with 0 <= lo <= hi <= len(a).                      *)

\* the bytes of a byte slice
MaxBytes == 3

\* the byte slice of n bytes 20, 21, ...
Bytes(n) == Buffer([i \in 1..n |-> 19 + i])

BoundKinds == {"none", "literal", "constant", "variable"}

\* the bound v of kind k; slot is the argument slot of its variable
BoundExpr(k, v, name, slot) ==
    CASE k = "none" -> NilNode
      [] k = "literal" -> BasicLit("int", v)
      [] k = "constant" -> Folded(Ident("c" \o name, "none", 0, "int"), "int", v)
      [] k = "variable" -> Ident(name, "varArgument", slot, "int")

SliceDecl(kl, lo, kh, hi) ==
    FuncDecl("main", 0, 3, <<>>,
             <<ReturnStmt(<<SliceExpr(Ident("a", "varArgument", 0, "bytes"),
                                      BoundExpr(kl, lo, "x", 1),
                                      BoundExpr(kh, hi, "y", 2))>>)>>)

InitSlice ==
    \E n \in 0..MaxBytes, lo \in 0..MaxBytes, hi \in 0..MaxBytes,
       kl \in BoundKinds, kh \in BoundKinds :
       /\ lo <= hi /\ hi <= n
       /\ kl = "none" => lo = 0
       /\ kh = "none" => hi = n
       /\ Parsed(<<SliceDecl(kl, lo, kh, hi)>>,
                 <<Bytes(n), Integer(lo), Integer(hi)>>, FALSE)

SpecSlice == InitSlice /\ [][NextRun]_vars

\* the slice expression of main, and what Go gives for a bound of it
TheSlice == decls[1].Body[1].Results[1]

GoBound(e, slot, none) ==
    IF e.node = "nil" THEN none
    ELSE IF e.node = "Ident" /\ e.tv.typ = "none" THEN vm.args[slot + 1].v
    ELSE e.tv.val

----------------------------------------------------------------------------
(* append.                                                                 *)
(*                                                                         *)
(*   func main(s []T, x1, x2, x3 T) []T { return append(s, x1, ..., xk) }  *)
(*   func main(s []T, x1, x2, x3 T) []T {                                  *)
(*       s = append(s, x1, ...); s = append(s, ..., xk); return s }        *)
(*                                                                         *)
(* with T = byte or T = int.  main is entered with s, nil or of 0 or more  *)
(* elements 7, 8, ..., and x1, x2, x3 on the stack, above the number of   *)
(* elements of s (-1 for nil).                                            *)

\* the arguments appended by one program
MaxAppend == 3

\* the elements of the slice appended to
MaxElems == 1

\* the values appended
ElemValues == {0, 1, 128}

SliceArg(typ) == Ident("s", "varArgument", 0, typ)

ElemArg(i) == Ident("x" \o ToString(i), "varArgument", i, "int")

\* append(s, x(from), ..., x(to))
AppendCall(typ, from, to) ==
    CallExpr(FuncIdent("append"),
             <<SliceArg(typ)>> \o [i \in 1..(to - from + 1) |-> ElemArg(from + i - 1)],
             Signature(2, TRUE), FALSE)

\* one append returned, or appends of first and of rest arguments assigned
AppendBodies(typ) ==
    {<<ReturnStmt(<<AppendCall(typ, 1, k)>>)>> : k \in 1..MaxAppend}
    \cup {<<AssignStmt(<<SliceArg(typ)>>, "ASSIGN", <<AppendCall(typ, 1, k)>>),
            ReturnStmt(<<SliceArg(typ)>>)>> : k \in 1..MaxAppend}
    \cup {<<AssignStmt(<<SliceArg(typ)>>, "ASSIGN", <<AppendCall(typ, 1, k)>>),
            AssignStmt(<<SliceArg(typ)>>, "ASSIGN",
                       <<AppendCall(typ, k + 1, m)>>),
            ReturnStmt(<<SliceArg(typ)>>)>> :
            k \in 1..MaxAppend, m \in 2..MaxAppend}

\* the slice of n elements 7, 8, ... of the type typ, nil if n = -1
SliceOf(typ, n) ==
    IF n = -1 THEN Null
    ELSE IF isByteSlice(typ) THEN Buffer([i \in 1..n |-> 6 + i])
    ELSE Array([i \in 1..n |-> Integer(6 + i)])

InitAppend ==
    \E typ \in {"bytes", "slice"}, n \in -1..MaxElems,
       xs \in [1..MaxAppend -> ElemValues] :
       \E body \in {b \in AppendBodies(typ) :
                      Len(b) = 3 => Len(b[1].Rhs[1].Args) <= Len(b[2].Rhs[1].Args)
                                    \/ Len(b[2].Rhs[1].Args) >= 2} :
          Parsed(<<FuncDecl("main", 0, MaxAppend + 1, <<>>, body)>>,
                 <<SliceOf(typ, n)>> \o [i \in 1..MaxAppend |-> Integer(xs[i])]
                 \o <<Integer(n)>>, FALSE)

SpecAppend == InitAppend /\ [][NextRun]_vars

\* the type of s, and the number of arguments the program appends: the last
\* argument of its last append
AppendType == decls[1].Body[1].node

LastAppend ==
    LET b == decls[1].Body
        st == IF Len(b) = 1 THEN b[1].Results[1] ELSE b[Len(b) - 1].Rhs[1]
    IN st

Appended == LastAppend.Args[Len(LastAppend.Args)].i

\* C13 as stated: the code of append(s, x1, ..., xk), k >= 1, leaves exactly
\* one item: the elements of s followed by x1, ..., xk in argument order,
\* where a nil s is an empty slice (an empty buffer for a byte slice, an
\* empty array otherwise); repeated appends accumulate in call order
C13_AppendAll ==
    Returned =>
      /\ vm.state \notin {"fault", "unsupported"}
      /\ vm.state = "halt" =>
           LET n == vm.estack[Len(vm.estack)].v
               s == SliceOf(LastAppend.Args[1].typ, IF n = -1 THEN 0 ELSE n)
               xs == [i \in 1..Appended |-> vm.args[i + 1]]
           IN /\ Len(vm.estack) = 2
              /\ vm.estack[1].t = s.t
              /\ vm.estack[1].v =
                   IF s.t = "Buffer" THEN s.v \o [i \in 1..Appended |-> xs[i].v]
                   ELSE s.v \o xs


----------------------------------------------------------------------------
(* The slot counts of a function.                                          *)
(*                                                                         *)
(*   func f1(... sizeArg arguments) int { var ... sizeLoc locals; return 9 }  *)

\* the functions of a program
MaxSlotDecls == 2

\* countLocals and countArgs
SlotCounts == {0, 1, 255, 256, 257}

SlotFuncs ==
    {FuncDecl("f", sizeLoc, sizeArg, <<>>, <<Return9>>) :
       sizeLoc \in SlotCounts, sizeArg \in SlotCounts}

SlotPrograms ==
    {Renamed(fs) : fs \in UNION {SeqsOf(SlotFuncs, n) : n \in 1..MaxSlotDecls}}

InitSlots == \E ds \in SlotPrograms : Parsed(ds, <<Integer(5)>>, FALSE)

SpecSlots == InitSlots /\ [][NextRun]_vars

\* a function of the program has more than 255 locals or arguments
TooManySlots ==
    \E d \in 1..Len(decls) : decls[d].sizeLoc > 255 \/ decls[d].sizeArg > 255

\* C14: a function of at most 255 locals and at most 255 arguments is
\* accepted and its code begins with INITSLOT carrying exactly the two
\* counts, or without INITSLOT if both are 0; a function of 256 or more
\* locals or arguments makes CodeGen return an error and no code
C14_SlotCounts ==
    phase = "done" =>
      IF TooManySlots THEN err # "nil" /\ err # "panic" /\ buf = <<>>
      ELSE /\ err = "nil"
           /\ \A d \in 1..Len(decls) :
                LET a == funcs[d].Start IN
                IF decls[d].sizeLoc = 0 /\ decls[d].sizeArg = 0
                THEN SubSeq(buf, a + 1, a + 2) = <<opcode.PUSH0 + 9, opcode.RET>>
                ELSE SubSeq(buf, a + 1, a + 5) =
                       <<opcode.INITSLOT, decls[d].sizeLoc, decls[d].sizeArg,
                         opcode.PUSH0 + 9, opcode.RET>>

\* 255 locals and 255 arguments are accepted and emitted as they are
C14_Witness ==
    /\ phase = "done"
    /\ err = "nil"
    /\ Len(decls) = 2
    /\ decls[2].sizeLoc = 255 /\ decls[2].sizeArg = 255
    /\ decls[1].sizeLoc = 0 /\ decls[1].sizeArg = 0
    /\ buf = <<opcode.PUSH0 + 9, opcode.RET,
               opcode.INITSLOT, 255, 255, opcode.PUSH0 + 9, opcode.RET>>

----------------------------------------------------------------------------
(* cli/server: configureAddresses, as initBCWithMetrics calls it.          *)

\* the addresses a configuration may hold; "" is the unset address
Addrs == {"", "a", "b", "c"}

\* config.ApplicationConfiguration, as far as configureAddresses reads it
ApplicationConfigurations ==
    [Address : Addrs,
     RPC : [Address : Addrs],
     Prometheus : [Address : Addrs],
     Pprof : [Address : Addrs]]

\* the body of configureAddresses: the value of its parameter cfg when it
\* returns
configureAddresses(c) ==
    IF c.Address # ""
    THEN LET c1 == IF c.RPC.Address = ""
                   THEN [c EXCEPT !.RPC.Address = c.Address] ELSE c
             c2 == IF c1.Prometheus.Address = ""
                   THEN [c1 EXCEPT !.Prometheus.Address = c1.Address] ELSE c1
         IN IF c2.Pprof.Address = ""
            THEN [c2 EXCEPT !.Pprof.Address = c2.Address] ELSE c2
    ELSE c

InitAddr ==
    /\ NoCompiler
    /\ cfg \in ApplicationConfigurations
    /\ frame = <<>>
    /\ outStream = <<>>
    /\ err = "nil"
    /\ phase = "start"

\* configureAddresses(cfg.ApplicationConfiguration): the parameter is a
\* value of the struct type, so the callee works on a copy of the caller's
\* configuration, and the caller's configuration is what it was
ConfigureAddresses ==
    /\ phase = "start"
    /\ frame' = [passed |-> cfg, cfg |-> configureAddresses(cfg)]
    /\ phase' = "done"
    /\ UNCHANGED <<cfg, outStream, err>>
    /\ UNCHANGED compilerVars

NextAddr == ConfigureAddresses

SpecAddr == InitAddr /\ [][NextAddr]_vars

\* the address the service is to have after the call
Defaulted(own, global) == IF own # "" THEN own ELSE global

\* C15: after configureAddresses was called with a configuration whose
\* global Address is non-empty, the caller's configuration has its RPC,
\* Prometheus and Pprof addresses equal to the one configured for the
\* service when that was non-empty and to the global Address otherwise;
\* with an empty global Address no address is changed.
C15_AddressesDefaulted ==
    phase = "done" =>
        IF frame.passed.Address # ""
        THEN /\ cfg.Address = frame.passed.Address
             /\ cfg.RPC.Address =
                    Defaulted(frame.passed.RPC.Address, frame.passed.Address)
             /\ cfg.Prometheus.Address =
                    Defaulted(frame.passed.Prometheus.Address,
                              frame.passed.Address)
             /\ cfg.Pprof.Address =
                    Defaulted(frame.passed.Pprof.Address, frame.passed.Address)
        ELSE cfg = frame.passed

\* what the code does establish: the callee's copy has the addresses the
\* claim describes, and the caller's configuration is untouched
C15_CopyDefaulted ==
    phase = "done" =>
        /\ cfg = frame.passed
        /\ IF cfg.Address # ""
           THEN /\ frame.cfg.Address = cfg.Address
                /\ frame.cfg.RPC.Address =
                       Defaulted(cfg.RPC.Address, cfg.Address)
                /\ frame.cfg.Prometheus.Address =
                       Defaulted(cfg.Prometheus.Address, cfg.Address)
                /\ frame.cfg.Pprof.Address =
                       Defaulted(cfg.Pprof.Address, cfg.Address)
           ELSE frame.cfg = cfg

----------------------------------------------------------------------------
(* cli/server: dumpDB.  The values of type uint32 are kept as two halves   *)
(* of 16 bits, most significant first, so that all 32 bits are there.      *)

Half == MaxUint16 + 1

U32(hi, lo) == [hi |-> hi, lo |-> lo]

\* uint32(n) of a small number
Small(n) == U32(0, n)

MaxUint32 == U32(MaxUint16, MaxUint16)

\* a + b of Go on uint32: the sum modulo 2^32
Add32(a, b) ==
    U32((a.hi + b.hi + (a.lo + b.lo) \div Half) % Half, (a.lo + b.lo) % Half)

\* a - b of Go on uint32: the difference modulo 2^32
Sub32(a, b) ==
    LET borrow == IF a.lo < b.lo THEN 1 ELSE 0
    IN U32((a.hi - b.hi - borrow + Half) % Half, (a.lo - b.lo + Half) % Half)

\* a < b and a > b of Go on uint32
Lt32(a, b) == a.hi < b.hi \/ (a.hi = b.hi /\ a.lo < b.lo)

Gt32(a, b) == Lt32(b, a)

\* the flags of the command line and the chain the configuration opens
MaxHeight == 2

FlagValues ==
    {Small(0), Small(1), Small(2), Small(3), Small(4),
     U32(MaxUint16, MaxUint16 - 1), MaxUint32}

DumpContexts ==
    [start : FlagValues, count : FlagValues, state : BOOLEAN,
     height : {Small(h) : h \in 0..MaxHeight}]

InitDump ==
    /\ NoCompiler
    /\ cfg \in DumpContexts
    /\ frame = <<>>
    /\ outStream = <<>>
    /\ err = "nil"
    /\ phase = "start"

\* writer.WriteU32LE(v)
WriteU32LE(out, v) == Append(out, [u32 |-> v])

\* dumpDB up to its loop: the flags, the chain, the check of the range, the
\* default of count and the header of the dump
DumpHeader ==
    /\ phase = "start"
    /\ LET count == cfg.count
           start == cfg.start
           chainCount == Add32(cfg.height, Small(1))
       IN IF Gt32(Add32(start, count), chainCount)
          THEN /\ err' = "chain is not that high"
               /\ phase' = "done"
               /\ frame' = [start |-> start, count |-> count,
                             chainCount |-> chainCount]
               /\ outStream' = outStream
          ELSE \E cnt \in {IF count = Small(0) THEN Sub32(chainCount, start)
                            ELSE count} :
               /\ err' = "nil"
               /\ phase' = "loop"
               /\ frame' = [start |-> start, count |-> cnt,
                             chainCount |-> chainCount, i |-> start,
                             exportState |-> cfg.state]
               /\ outStream' =
                     WriteU32LE(IF start # Small(0) \/ cfg.state
                                THEN WriteU32LE(outStream, start)
                                ELSE outStream, cnt)
    /\ UNCHANGED cfg
    /\ UNCHANGED compilerVars

\* one turn of the loop: the state root or the block of index i is written,
\* with its length before it
DumpItem ==
    /\ phase = "loop"
    /\ Lt32(frame.i, Add32(frame.start, frame.count))
    /\ outStream' =
          Append(outStream,
                 IF frame.exportState THEN [root |-> frame.i]
                 ELSE [block |-> frame.i])
    /\ frame' = [frame EXCEPT !.i = Add32(frame.i, Small(1))]
    /\ UNCHANGED <<cfg, err, phase>>
    /\ UNCHANGED compilerVars

\* the loop is left, everything is shut down and nil is returned
DumpReturn ==
    /\ phase = "loop"
    /\ ~ Lt32(frame.i, Add32(frame.start, frame.count))
    /\ phase' = "done"
    /\ UNCHANGED <<cfg, err, frame, outStream>>
    /\ UNCHANGED compilerVars

NextDump == DumpHeader \/ DumpItem \/ DumpReturn

SpecDump == InitDump /\ [][NextDump]_vars

\* start + count as mathematical integers exceeds the number of blocks
\* (which is small): the sum either does not fit 32 bits or is greater
ExceedsChain ==
    \/ cfg.start.hi + cfg.count.hi
          + (cfg.start.lo + cfg.count.lo) \div Half >= Half
    \/ Gt32(Add32(cfg.start, cfg.count), Add32(cfg.height, Small(1)))

\* the blocks written so far, in the order of writing
RECURSIVE BlocksOf(_)
BlocksOf(out) ==
    IF out = <<>> THEN <<>>
    ELSE IF "block" \in DOMAIN Head(out)
         THEN <<Head(out).block>> \o BlocksOf(Tail(out))
         ELSE BlocksOf(Tail(out))

\* the blocks the command is to write: count of them from start on, and
\* with count 0 all from start to the height
Requested ==
    LET n == IF cfg.count = Small(0)
             THEN cfg.height.lo + 1 - cfg.start.lo ELSE cfg.count.lo
    IN [k \in 1..n |-> Small(cfg.start.lo + k - 1)]

\* C16: for all start and count of 32 bits, dumpDB returns an error and
\* writes no block when start + count, as mathematical integers, exceeds
\* the number of blocks of the chain; otherwise it writes exactly count
\* blocks from block start on, count 0 standing for all the blocks from
\* start to the height.  (Stated for a dump of blocks, not of state roots.)
C16_DumpRange ==
    (phase = "done" /\ ~ cfg.state) =>
        IF ExceedsChain
        THEN err # "nil" /\ BlocksOf(outStream) = <<>>
        ELSE err = "nil" /\ BlocksOf(outStream) = Requested

\* the same while the sum of start and count fits 32 bits
C16_DumpRangeNoWrap ==
    (phase = "done" /\ ~ cfg.state
       /\ cfg.start.hi + cfg.count.hi
            + (cfg.start.lo + cfg.count.lo) \div Half < Half) =>
        IF ExceedsChain
        THEN err # "nil" /\ BlocksOf(outStream) = <<>>
        ELSE err = "nil" /\ BlocksOf(outStream) = Requested

----------------------------------------------------------------------------
(* smartcontract/manifest/standard: Comply.                                *)

ErrMethodMissing == "method missing"
ErrEventMissing == "event missing"
ErrInvalidReturnType == "invalid return type"
ErrInvalidParameterCount == "invalid parameter count"
ErrInvalidParameterType == "invalid parameter type"

\* the manifests Comply is given: up to MaxMethods methods and MaxEvents
\* events, of up to MaxManifestParams parameters each
MaxMethods == 2
MaxEvents == 1
MaxManifestParams == 1

ParamTypes == {"Integer", "Boolean"}

\* the parameter lists, all their parameters of the given name
ParameterLists(name) ==
    UNION {[1..n -> [Name : {name}, Type : ParamTypes]] :
             n \in 0..MaxManifestParams}

MethodsNamed(pname) ==
    [Name : {"foo", "baz"}, ReturnType : ParamTypes,
     Parameters : ParameterLists(pname)]

EventsNamed(pname) == [Name : {"bar"}, Parameters : ParameterLists(pname)]

\* the manifests, as far as Comply reads them; the names of the
\* parameters are pname
Manifests(pname) ==
    {[ABI |-> [Methods |-> ms, Events |-> es]] :
        ms \in UNION {[1..n -> MethodsNamed(pname)] : n \in 0..MaxMethods},
        es \in UNION {[1..n -> EventsNamed(pname)] : n \in 0..MaxEvents}}

\* m.ABI.GetMethod(name) and m.ABI.GetEvent(name): the index of the first
\* one of that name, 0 standing for nil
GetNamed(list, name) ==
    IF \E i \in 1..Len(list) : list[i].Name = name
    THEN CHOOSE i \in 1..Len(list) :
            /\ list[i].Name = name
            /\ \A j \in 1..(i - 1) : list[j].Name # name
    ELSE 0

\* the loop over the parameters, from the i-th on
RECURSIVE parameterTypes(_, _, _)
parameterTypes(want, got, i) ==
    IF i > Len(want) THEN "nil"
    ELSE IF want[i].Type # got[i].Type THEN ErrInvalidParameterType
    ELSE parameterTypes(want, got, i + 1)

\* the body of the loop over the methods of the standard
complyMethod(m, stm) ==
    LET md == GetNamed(m.ABI.Methods, stm.Name) IN
    IF md = 0 THEN ErrMethodMissing
    ELSE IF stm.ReturnType # m.ABI.Methods[md].ReturnType
    THEN ErrInvalidReturnType
    ELSE IF Len(stm.Parameters) # Len(m.ABI.Methods[md].Parameters)
    THEN ErrInvalidParameterCount
    ELSE parameterTypes(stm.Parameters, m.ABI.Methods[md].Parameters, 1)

\* the body of the loop over the events of the standard
complyEvent(m, ste) ==
    LET ed == GetNamed(m.ABI.Events, ste.Name) IN
    IF ed = 0 THEN ErrEventMissing
    ELSE IF Len(ste.Parameters) # Len(m.ABI.Events[ed].Parameters)
    THEN ErrInvalidParameterCount
    ELSE parameterTypes(ste.Parameters, m.ABI.Events[ed].Parameters, 1)

\* the loop over the events, from the i-th on
RECURSIVE complyEvents(_, _, _)
complyEvents(m, st, i) ==
    IF i > Len(st.ABI.Events) THEN "nil"
    ELSE LET e == complyEvent(m, st.ABI.Events[i])
         IN IF e # "nil" THEN e ELSE complyEvents(m, st, i + 1)

\* the loop over the methods, from the i-th on, and the rest of Comply
RECURSIVE complyMethods(_, _, _)
complyMethods(m, st, i) ==
    IF i > Len(st.ABI.Methods) THEN complyEvents(m, st, 1)
    ELSE LET e == complyMethod(m, st.ABI.Methods[i])
         IN IF e # "nil" THEN e ELSE complyMethods(m, st, i + 1)

\* the sentinel the error of Comply(m, st) wraps, or "nil"
Comply(m, st) == complyMethods(m, st, 1)

InitComply ==
    /\ NoCompiler
    /\ cfg \in [m : Manifests("mine"), st : Manifests("theirs")]
    /\ frame = <<>>
    /\ outStream = <<>>
    /\ err = "nil"
    /\ phase = "start"

\* the call Comply(m, st)
CallComply ==
    /\ phase = "start"
    /\ err' = Comply(cfg.m, cfg.st)
    /\ frame' = [m |-> cfg.m, st |-> cfg.st]
    /\ phase' = "done"
    /\ UNCHANGED <<cfg, outStream>>
    /\ UNCHANGED compilerVars

NextComply == CallComply

SpecComply == InitComply /\ [][NextComply]_vars

\* the parameter types of two lists of the same length are pairwise equal
SameTypes(want, got) ==
    /\ Len(want) = Len(got)
    /\ \A i \in 1..Len(want) : want[i].Type = got[i].Type

\* the methods and events of m that have the name of x
SameName(list, x) == {i \in 1..Len(list) : list[i].Name = x.Name}

\* the first check a method of the standard fails against m, in the order
\* missing, return type, number of parameters, parameter types
FailingMethodCheck(m, stm) ==
    LET ms == m.ABI.Methods
        named == SameName(ms, stm)
        typed == {i \in named : ms[i].ReturnType = stm.ReturnType}
        counted == {i \in typed :
                      Len(ms[i].Parameters) = Len(stm.Parameters)}
    IN IF named = {} THEN ErrMethodMissing
       ELSE IF typed = {} THEN ErrInvalidReturnType
       ELSE IF counted = {} THEN ErrInvalidParameterCount
       ELSE IF \A i \in counted :
                  ~ SameTypes(stm.Parameters, ms[i].Parameters)
       THEN ErrInvalidParameterType
       ELSE "nil"

FailingEventCheck(m, ste) ==
    LET es == m.ABI.Events
        named == SameName(es, ste)
        counted == {i \in named :
                      Len(es[i].Parameters) = Len(ste.Parameters)}
    IN IF named = {} THEN ErrEventMissing
       ELSE IF counted = {} THEN ErrInvalidParameterCount
       ELSE IF \A i \in counted :
                  ~ SameTypes(ste.Parameters, es[i].Parameters)
       THEN ErrInvalidParameterType
       ELSE "nil"

\* the first failing check of all, the methods before the events
FirstFailing(m, st) ==
    LET badM == {i \in 1..Len(st.ABI.Methods) :
                   FailingMethodCheck(m, st.ABI.Methods[i]) # "nil"}
        badE == {i \in 1..Len(st.ABI.Events) :
                   FailingEventCheck(m, st.ABI.Events[i]) # "nil"}
    IN IF badM # {}
       THEN FailingMethodCheck(m,
               st.ABI.Methods[CHOOSE i \in badM : \A j \in badM : i <= j])
       ELSE IF badE # {}
       THEN FailingEventCheck(m,
               st.ABI.Events[CHOOSE i \in badE : \A j \in badE : i <= j])
       ELSE "nil"

\* C17: Comply(m, st) returns nil exactly when for every method of st, m
\* has a method of the same name, return type, number of parameters and
\* parameter types, and for every event of st an event of the same name,
\* number of parameters and parameter types, whatever else m has and
\* whatever the parameters are called; otherwise its error wraps the
\* sentinel of the first failing check, methods before events, and per
\* method missing, return type, parameter count, parameter type.
C17_Comply ==
    phase = "done" => err = FirstFailing(frame.m, frame.st)

\* no two methods of m have the same name
DistinctNames(m) ==
    \A i, j \in 1..Len(m.ABI.Methods) :
       m.ABI.Methods[i].Name = m.ABI.Methods[j].Name => i = j

\* the same for the manifests m in which a name stands for one method
C17_ComplyDistinct ==
    (phase = "done" /\ DistinctNames(frame.m)) =>
        err = FirstFailing(frame.m, frame.st)

----------------------------------------------------------------------------
(* Switch statements with a tag.                                           *)
(*                                                                         *)
(*   func f() int {                                                        *)
(*       var k int                                                         *)
(*       switch runtime.ask1() {                                           *)
(*       case 0, runtime.ask2(): k = runtime.echo1(); fallthrough          *)
(*       default:                k = runtime.echo2(); break                *)
(*       case 1:                 k = runtime.echo3()                       *)
(*       }                                                                 *)
(*       k = runtime.echo4()                                               *)
(*       return 9                                                          *)
(*   }                                                                     *)
(*                                                                         *)
(* The host answers ask1 and ask2 with 0 or 1 and keeps the trace of what  *)
(* it was asked.                                                           *)

MaxClauses == 3

\* the lists of case expressions; the empty one is that of default
CaseLists ==
    {<<>>, <<BasicLit("int", 0)>>, <<BasicLit("int", 1)>>, <<AskN(2)>>,
     <<BasicLit("int", 1), AskN(2)>>}

Endings == {"out", "break", "fallthrough"}

\* k = runtime.echoi()
Mark(i) == AssignStmt(<<LocK>>, "ASSIGN", <<Echo(i)>>)

\* the i-th clause
ClauseOf(list, ending, i) ==
    CaseClause(list,
               <<Mark(i)>> \o
               (CASE ending = "out" -> <<>>
                  [] ending = "break" -> <<BranchStmt("BREAK", NoName)>>
                  [] ending = "fallthrough" ->
                       <<BranchStmt("FALLTHROUGH", NoName)>>))

\* the bodies of switch statements Go accepts: one default at most, no
\* fallthrough in the last clause
ClauseLists ==
    {[i \in 1..n |-> ClauseOf(ls[i], es[i], i)] :
        <<n, ls, es>> \in
          {q \in UNION {{n} \X [1..n -> CaseLists] \X [1..n -> Endings] :
                          n \in 1..MaxClauses} :
             /\ Cardinality({i \in 1..q[1] : q[2][i] = <<>>}) <= 1
             /\ q[3][q[1]] # "fallthrough"}}

SwitchPrograms ==
    {<<FuncDecl("f", 1, 0, <<>>,
                <<SwitchStmt(AskN(1), "int", cl), Mark(MaxClauses + 1),
                  Return9>>),
       SyscallDecl("runtime.ask1", 1), SyscallDecl("runtime.ask2", 2)>>
     \o EchoDecls(MaxClauses + 1) : cl \in ClauseLists}

InitSwitch == \E ds \in SwitchPrograms : Parsed(ds, <<>>, TRUE)

SpecSwitch == InitSwitch /\ [][NextRun]_vars

\* the clauses of the switch statement
TheClauses == decls[1].Body[1].Body

\* the default clause, 0 when there is none
DefaultOf(cl) ==
    IF \E i \in 1..Len(cl) : cl[i].List = <<>>
    THEN CHOOSE i \in 1..Len(cl) : cl[i].List = <<>>
    ELSE 0

\* the choice of the clause by the rules of Go, for the tag t and the
\* answers tr of the host, from the j-th expression of the i-th clause on:
\* the expressions are evaluated in source order up to the first one equal
\* to the tag, whose clause is chosen; without one, default is; ok says
\* that tr starts with the answers to the expressions evaluated
RECURSIVE GoMatch(_, _, _, _, _)
GoMatch(cl, i, j, t, tr) ==
    IF i > Len(cl)
    THEN [ok |-> TRUE, clause |-> DefaultOf(cl), rest |-> tr]
    ELSE IF j > Len(cl[i].List) THEN GoMatch(cl, i + 1, 1, t, tr)
    ELSE LET v == GoValue(cl[i].List[j], tr) IN
         IF ~v.ok THEN [ok |-> FALSE, clause |-> 0, rest |-> tr]
         ELSE IF v.v = t THEN [ok |-> TRUE, clause |-> i, rest |-> v.rest]
         ELSE GoMatch(cl, i, j + 1, t, v.rest)

\* the marks of the bodies that run once clause i is chosen
RECURSIVE GoMarks(_, _)
GoMarks(cl, i) ==
    IF i = 0 \/ i > Len(cl) THEN <<>>
    ELSE <<FirstEcho + i>> \o
         (IF isFallthroughStmt(cl[i].Body[Len(cl[i].Body)])
          THEN GoMarks(cl, i + 1) ELSE <<>>)

\* the run of f is the run Go defines: the tag was asked for once, first;
\* then the case expressions up to the first equal one; then the bodies
\* from the chosen clause on; then the statement after the switch, with
\* nothing but the result of f on the stack at the end
SwitchAsGo ==
    /\ vm.state \notin {"fault", "unsupported"}
    /\ vm.state = "halt" =>
         /\ vm.trace # <<>>
         /\ vm.trace[1].api = 1
         /\ \E m \in {GoMatch(TheClauses, 1, 1, vm.trace[1].val,
                               Tail(vm.trace))} :
               /\ m.ok
               /\ [x \in 1..Len(m.rest) |-> m.rest[x].api] =
                     GoMarks(TheClauses, m.clause)
                       \o <<FirstEcho + MaxClauses + 1>>
         /\ vm.estack = <<Integer(9)>>

\* C18: in a switch with a tag the tag is evaluated exactly once; the
\* clause whose body runs is the first in source order with a case
\* expression equal to the tag, no case expression after the first equal
\* one is evaluated, and at the statement after the switch, reached by
\* falling out of a clause or by break, the tag is off the stack.
C18_FirstEqualClause == Returned => SwitchAsGo

\* default is the last clause, or there is none
DefaultLast == DefaultOf(TheClauses) \in {0, Len(TheClauses)}

\* the same for the switch statements whose default clause is the last
C18_DefaultLast == (Returned /\ DefaultLast) => SwitchAsGo

----------------------------------------------------------------------------
(* Clauses that end in fallthrough.                                        *)

\* the clauses whose last statement is fallthrough
Fallthroughs ==
    {i \in 1..Len(TheClauses) :
       isFallthroughStmt(TheClauses[i].Body[Len(TheClauses[i].Body)])}

\* the note of the code emitted for the i-th clause: it starts at address
\* start, the next instruction is at after, end is the label of the end of
\* the switch and post the start label of the next clause
ClauseNote(i) ==
    cg.stmts[CHOOSE x \in Notes({"CaseClause"}) :
               Cardinality({y \in Notes({"CaseClause"}) : y <= x}) = i]

\* the addresses, in the emitted program, of the jumps of clause i to label
JumpsOfClause(i, label) ==
    LET nt == ClauseNote(i)
        starts == InstrStarts(cg.prog, 0)
    IN {a \in {starts[x] : x \in 1..Len(starts)} :
          /\ nt.start <= a /\ a < nt.after
          /\ cg.prog[a + 1] = opcode.JMPL
          /\ Uint16At(cg.prog, a + 1) = label}

\* the address of the last instruction of clause i
LastOfClause(i) ==
    LET nt == ClauseNote(i)
        starts == InstrStarts(cg.prog, 0)
    IN CHOOSE a \in {starts[x] : x \in 1..Len(starts)} :
          a < nt.after /\ NextIP(cg.prog, a) = nt.after

\* once the body of a clause that ends in fallthrough has run, the body of
\* the next clause runs, and the host is not asked for a case expression
\* in between
FallsIntoNext ==
    vm.state = "halt" =>
       \A x \in 1..Len(vm.trace) :
          \A i \in Fallthroughs :
             vm.trace[x].api = FirstEcho + i =>
                /\ x < Len(vm.trace)
                /\ vm.trace[x + 1].api = FirstEcho + i + 1

\* C19: the code emitted for a clause whose last statement is fallthrough
\* ends with a jump to the start label of the next clause and holds no
\* terminating jump to the end of the switch; when such a clause has run,
\* the body of the next clause runs without its case expressions being
\* tested.
C19_Fallthrough ==
    Returned =>
       /\ \A i \in Fallthroughs :
             /\ LastOfClause(i) \in JumpsOfClause(i, ClauseNote(i).post)
             /\ JumpsOfClause(i, ClauseNote(i).end) = {}
       /\ FallsIntoNext

\* what the emitted code is: the jump to the next clause is followed by
\* the terminating jump to the end of the switch, which is never reached;
\* the run is as the claim says
C19_JumpThenDeadJump ==
    Returned =>
       /\ \A i \in Fallthroughs :
             /\ JumpsOfClause(i, ClauseNote(i).end) = {LastOfClause(i)}
             /\ JumpsOfClause(i, ClauseNote(i).post) = {LastOfClause(i) - 5}
             /\ vm.state = "run" => vm.pc # Shifted(LastOfClause(i))
       /\ FallsIntoNext

----------------------------------------------------------------------------
(* For loops.                                                              *)
(*                                                                         *)
(*   func f() int {                                                        *)
(*       var k int                                                         *)
(*       for k = runtime.echo1(); runtime.ask1(); k = runtime.echo3() {    *)
(*           k = runtime.echo2()                                           *)
(*           if runtime.ask2() { continue }                                *)
(*           k = runtime.echo5()                                           *)
(*       }                                                                 *)
(*       k = runtime.echo4()                                               *)
(*       return 9                                                          *)
(*   }                                                                     *)
(*                                                                         *)
(* with and without init, condition and post statement, and with break in  *)
(* the place of continue.  The host keeps the trace of what it was asked,  *)
(* and answers MaxAsked questions at most.                                 *)

MaxAsked == 9

\* what follows k = runtime.echo2() in the body
LoopEndings == {"out", "continue", "break", "if continue", "if break"}

LoopBody(ending) ==
    <<Mark(2)>> \o
    (CASE ending = "out" -> <<>>
       [] ending = "continue" -> <<BranchStmt("CONTINUE", NoName)>>
       [] ending = "break" -> <<BranchStmt("BREAK", NoName)>>
       [] ending = "if continue" ->
            <<IfStmt(AskN(2), <<BranchStmt("CONTINUE", NoName)>>, NilNode),
              Mark(5)>>
       [] ending = "if break" ->
            <<IfStmt(AskN(2), <<BranchStmt("BREAK", NoName)>>, NilNode),
              Mark(5)>>)

\* the loops: which of init, condition and post they have, and the body
LoopShapes ==
    [init : BOOLEAN, cond : BOOLEAN, post : BOOLEAN, ending : LoopEndings]

LoopOf(sh) ==
    ForStmt(IF sh.init THEN Mark(1) ELSE NilNode,
            IF sh.cond THEN AskN(1) ELSE NilNode,
            IF sh.post THEN Mark(3) ELSE NilNode,
            LoopBody(sh.ending))

LoopPrograms ==
    {[shape |-> sh] @@ FuncDecl("f", 1, 0, <<>>,
                                <<LoopOf(sh), Mark(4), Return9>>) :
       sh \in LoopShapes}

LoopDecls ==
    <<SyscallDecl("runtime.ask1", 1), SyscallDecl("runtime.ask2", 2)>>
    \o EchoDecls(5)

InitLoop == \E d \in LoopPrograms : Parsed(<<d>> \o LoopDecls, <<>>, TRUE)

\* one instruction, while the host still answers
StepAsked ==
    /\ phase = "done" /\ err = "nil" /\ vm.state = "run"
    /\ Len(vm.trace) < MaxAsked
    /\ Step

NextLoop == Compile \/ WriteJumps \/ StepAsked

SpecLoop == InitLoop /\ [][NextLoop]_vars

\* the run of the loop by the rules of Go, on the trace tr of the host,
\* from the place at on: the place the trace leads to, "bad" when the
\* trace is not one of Go.  The places are init, cond, body, test (the if
\* of the body), rest (what follows the if), post, after and end.
RECURSIVE GoFor(_, _, _)
GoFor(sh, tr, at) ==
    LET h == Head(tr)
        go(api, next) ==
            IF tr = <<>> THEN at
            ELSE IF h.api = api THEN GoFor(sh, Tail(tr), next) ELSE "bad"
    IN
    CASE at = "init" ->
           IF sh.init THEN go(FirstEcho + 1, "cond") ELSE GoFor(sh, tr, "cond")
      [] at = "cond" ->
           IF ~sh.cond THEN GoFor(sh, tr, "body")
           ELSE IF tr = <<>> THEN at
           ELSE go(1, IF ToBool(h.val) THEN "body" ELSE "after")
      [] at = "body" ->
           go(FirstEcho + 2,
              CASE sh.ending \in {"out", "continue"} -> "post"
                [] sh.ending = "break" -> "after"
                [] OTHER -> "test")
      [] at = "test" ->
           IF tr = <<>> THEN at
           ELSE go(2, IF ~ToBool(h.val) THEN "rest"
                      ELSE IF sh.ending = "if continue" THEN "post"
                      ELSE "after")
      [] at = "rest" -> go(FirstEcho + 5, "post")
      [] at = "post" ->
           IF sh.post THEN go(FirstEcho + 3, "cond") ELSE GoFor(sh, tr, "cond")
      [] at = "after" -> go(FirstEcho + 4, "end")
      [] at = "end" -> IF tr = <<>> THEN at ELSE "bad"

\* the place the run has come to
LoopPlace == GoFor(decls[1].shape, vm.trace, "init")

\* C20: in a for loop the init statement runs exactly once, before the
\* first test of the condition; every iteration runs condition, body and
\* post statement in that order; continue in the body goes to the post
\* statement, which runs before the condition is tested again; a false
\* condition or a break goes to the statement after the loop without the
\* post statement being run.  No run faults, and f returns its result.
C20_LoopOrder ==
    Returned =>
       /\ vm.state \notin {"fault", "unsupported"}
       /\ LoopPlace # "bad"
       /\ vm.state = "halt" =>
             LoopPlace = "end" /\ vm.estack = <<Integer(9)>>

\* for k = echo1(); ask1(); k = echo3() { k = echo2(); if ask2() {
\* continue }; k = echo5() }: the first turn took continue and the post
\* statement ran, the second turn ran to its end, then the condition was
\* false and the statement after the loop ran
C20_Witness ==
    /\ Returned /\ vm.state = "halt"
    /\ decls[1].shape =
         [init |-> TRUE, cond |-> TRUE, post |-> TRUE,
          ending |-> "if continue"]
    /\ [x \in 1..Len(vm.trace) |-> vm.trace[x].api] =
         <<FirstEcho + 1, 1, FirstEcho + 2, 2, FirstEcho + 3,
           1, FirstEcho + 4>>
    /\ vm.trace[4].val = Integer(1)
    /\ vm.estack = <<Integer(9)>>

----------------------------------------------------------------------------
(* Range loops.                                                            *)
(*                                                                         *)
(*   func f(x []int) int {            func f(x map[int]int) int {          *)
(*       var k, v, w int                                                   *)
(*       for [k[, v] :=] range x {                                         *)
(*           w = runtime.echo2()                                           *)
(*           [if runtime.ask2() { continue }; w = runtime.echo5()]         *)
(*           [x = append(x, w)]                                            *)
(*       }                                                                 *)
(*       w = runtime.echo4()                                               *)
(*       return 9                                                          *)
(*   }                                                                     *)
(*                                                                         *)
(* f is entered with x = [20, 21, ...] or x = {30: 40, 31: 41, ...}; the   *)
(* host keeps the trace of what it was asked.                              *)

\* the elements of the slice and the entries of the map ranged over
MaxRange == 3

LocW == Ident("w", "varLocal", 2, "int")

\* w = runtime.echoi()
MarkW(i) == AssignStmt(<<LocW>>, "ASSIGN", <<Echo(i)>>)

RangeEndings == {"out", "if continue", "append"}

\* what is written for the key and for the value: nothing, _ or a variable
Wanted == {"none", "blank", "var"}

RangeShapes ==
    {sh \in [isMap : BOOLEAN, key : Wanted, value : Wanted,
             ending : RangeEndings, n : 0..MaxRange] :
       /\ sh.key = "none" => sh.value = "none"
       /\ sh.ending = "append" => ~sh.isMap}

RangeX(sh) ==
    Ident("x", "varArgument", 0, IF sh.isMap THEN "map" ELSE "slice")

LoopVar(want, id) ==
    CASE want = "none" -> NilNode
      [] want = "blank" -> Blank
      [] want = "var" -> id

RangeBody(sh) ==
    <<MarkW(2)>> \o
    (CASE sh.ending = "out" -> <<>>
       [] sh.ending = "if continue" ->
            <<IfStmt(AskN(2), <<BranchStmt("CONTINUE", NoName)>>, NilNode),
              MarkW(5)>>
       [] sh.ending = "append" ->
            <<AssignStmt(<<RangeX(sh)>>, "ASSIGN",
                         <<CallExpr(FuncIdent("append"), <<RangeX(sh), LocW>>,
                                    Signature(2, TRUE), FALSE)>>)>>)

RangeOf(sh) ==
    RangeStmt(LoopVar(sh.key, LocK), LoopVar(sh.value, LocV), RangeX(sh),
              sh.isMap, RangeBody(sh))

RangePrograms ==
    {[shape |-> sh] @@ FuncDecl("f", 3, 1, <<>>,
                                <<RangeOf(sh), MarkW(4), Return9>>) :
       sh \in RangeShapes}

\* the element number i of the slice, the key and the value of the entry
\* number i of the map, counted from 0
ElemAt(i) == Integer(20 + i)

KeyAt(i) == Integer(30 + i)

ValueAt(i) == Integer(40 + i)

RangeInput(sh) ==
    IF sh.isMap
    THEN MapItem([j \in 1..sh.n |-> [k |-> KeyAt(j - 1), v |-> ValueAt(j - 1)]])
    ELSE Array([j \in 1..sh.n |-> ElemAt(j - 1)])

InitRange ==
    \E d \in RangePrograms :
       Parsed(<<d>> \o LoopDecls, <<RangeInput(d.shape)>>, TRUE)

\* the machine runs the next instruction as long as there is one
SpecRange == InitRange /\ [][NextRun]_vars /\ WF_vars(Step)

TheRange == decls[1].shape

\* the run of the loop by the rules of Go, on the trace tr of the host, from
\* the place at on in the turn number i: the place the trace leads to, "bad"
\* when the trace is not one of Go.  The places are turn (the body is about
\* to run, or the loop is left when i = n), test (the if of the body), rest
\* (what follows the if) and end.
RECURSIVE GoRange(_, _, _, _)
GoRange(sh, tr, at, i) ==
    LET h == Head(tr)
        go(api, next, j) ==
            IF tr = <<>> THEN at
            ELSE IF h.api = api THEN GoRange(sh, Tail(tr), next, j) ELSE "bad"
    IN
    CASE at = "turn" ->
           IF i >= sh.n THEN go(FirstEcho + 4, "end", i)
           ELSE IF sh.ending = "if continue" THEN go(FirstEcho + 2, "test", i)
           ELSE go(FirstEcho + 2, "turn", i + 1)
      [] at = "test" ->
           IF tr = <<>> THEN at
           ELSE IF ToBool(h.val) THEN go(2, "turn", i + 1)
           ELSE go(2, "rest", i)
      [] at = "rest" -> go(FirstEcho + 5, "turn", i + 1)
      [] at = "end" -> IF tr = <<>> THEN at ELSE "bad"

RangePlace == GoRange(TheRange, vm.trace, "turn", 0)

\* how often the body was entered
Turns ==
    Cardinality({x \in 1..Len(vm.trace) : vm.trace[x].api = FirstEcho + 2})

\* the host has just answered the call of api
JustAsked(api) ==
    /\ vm.state = "run" /\ vm.last >= 0 /\ vm.last < Len(buf)
    /\ buf[vm.last + 1] = opcode.SYSCALL
    /\ buf[vm.last + 2] = api

\* x in the turn number i: every earlier turn has appended what it was
\* answered
RangedOver(i) ==
    IF TheRange.ending = "append"
    THEN Array(RangeInput(TheRange).v \o [j \in 1..i |-> Integer(FirstEcho + 2)])
    ELSE RangeInput(TheRange)

\* what the loop keeps on the stack in the turn number i, the top first
Bookkeeping(i) ==
    IF TheRange.isMap
    THEN <<Integer(i), Integer(TheRange.n),
           Array([j \in 1..TheRange.n |-> KeyAt(j - 1)]), RangedOver(i)>>
    ELSE <<Integer(i), Integer(TheRange.n), RangedOver(i)>>

RangeDone == vm.state = "halt"

RangeSafe ==
    Returned =>
       /\ vm.state \notin {"fault", "unsupported"}
       /\ RangePlace # "bad"
       /\ Turns <= TheRange.n
       /\ JustAsked(FirstEcho + 2) =>
             vm.estack = <<Integer(FirstEcho + 2)>> \o Bookkeeping(Turns - 1)
       /\ JustAsked(FirstEcho + 4) =>
             Turns = TheRange.n /\ vm.estack = <<Integer(FirstEcho + 4)>>
       /\ vm.state = "halt" =>
             /\ RangePlace = "end" /\ Turns = TheRange.n
             /\ vm.estack = <<Integer(9)>>

C21_WitnessEmpty ==
    /\ Returned /\ JustAsked(FirstEcho + 4)
    /\ TheRange.isMap /\ TheRange.n = 0
    /\ Turns = 0 /\ vm.estack = <<Integer(FirstEcho + 4)>>

\* the loop variables in the body of the turn number i, given what the key
\* variable of a range over a slice holds
LoopVariables(i, sliceKey) ==
    /\ TheRange.key = "var" =>
          vm.loc[LocK.i + 1] = (IF TheRange.isMap THEN KeyAt(i) ELSE sliceKey)
    /\ TheRange.value = "var" =>
          vm.loc[LocV.i + 1] = (IF TheRange.isMap THEN ValueAt(i) ELSE ElemAt(i))
    /\ SubSeq(vm.estack, 2, Len(vm.estack)) = Bookkeeping(i)

\* C22 as stated: in the turn number i of a range over a slice the key
\* variable holds slice[i] and the value variable holds slice[i]; over a map
\* the key variable holds keys[i] and the value variable the entry of the
\* map for keys[i]; the items the loop keeps on the stack are as before
C22_LoopVariables ==
    Returned /\ JustAsked(FirstEcho + 2) =>
       LoopVariables(Turns - 1, ElemAt(Turns - 1))

\* C22 amended: in the turn number i of a range over a slice the key
\* variable holds the index i and the value variable holds slice[i]; over a
\* map the key variable holds keys[i] and the value variable the entry of
\* the map for keys[i]; the items the loop keeps on the stack are as before
C22_LoopVariablesIndex ==
    Returned /\ JustAsked(FirstEcho + 2) =>
       LoopVariables(Turns - 1, Integer(Turns - 1))

\* the second turn of for k, v := range x over the slice [20, 21, 22]:
\* k = 1 and v = 21, and w still holds the answer of the first turn
C22_Witness ==
    /\ Returned /\ JustAsked(FirstEcho + 2)
    /\ TheRange = [isMap |-> FALSE, key |-> "var", value |-> "var",
                   ending |-> "out", n |-> 3]
    /\ Turns = 2
    /\ vm.loc = <<Integer(1), ElemAt(1), Integer(FirstEcho + 2)>>
    /\ vm.estack = <<Integer(FirstEcho + 2), Integer(1), Integer(3),
                     Array(<<ElemAt(0), ElemAt(1), ElemAt(2)>>)>>

\* the second turn of for k, v := range x over the map {30: 40, 31: 41}
C22_WitnessMap ==
    /\ Returned /\ JustAsked(FirstEcho + 2)
    /\ TheRange.isMap /\ TheRange.key = "var" /\ TheRange.value = "var"
    /\ TheRange.n = 2 /\ Turns = 2
    /\ vm.loc[1] = KeyAt(1) /\ vm.loc[2] = ValueAt(1)

----------------------------------------------------------------------------
(* dropItems: the code it emits, run on a stack of the n items to drop     *)
(* above some items that stay.                                             *)

\* the items dropped
MaxDrop == 8

\* the items below them
MaxBelow == 2

\* the stack of d items 50, 51, ..., the top first
DropStack(d) == [i \in 1..d |-> Integer(49 + i)]

InitDrop ==
    \E n \in 0..MaxDrop, below \in 0..MaxBelow :
       Parsed([n |-> n, stack |-> DropStack(n + below)],
              DropStack(n + below), FALSE)

\* dropItems(n) on an empty program
DropItems ==
    /\ phase = "parsed"
    /\ Emits(dropItems(newCodegen, decls.n))

NextDrop == DropItems \/ WriteJumps \/ Step

SpecDrop == InitDrop /\ [][NextDrop]_vars

\* what stays on the stack
Below == SubSeq(decls.stack, decls.n + 1, Len(decls.stack))

\* C23: the code of dropItems(n) is n single DROPs when n < 4, and a push
\* of n, PACK and DROP when n >= 4: PACK then finds n on top and makes one
\* array of the top n items, and DROP drops the array; either way the run
\* ends with the top n items gone and the items below as they were.
C23_DropItems ==
    Returned =>
       /\ vm.state \notin {"fault", "unsupported"}
       /\ IF decls.n < 4
          THEN /\ buf = [i \in 1..decls.n |-> opcode.DROP]
               /\ vm.estack = SubSeq(decls.stack, vm.pc + 1, Len(decls.stack))
          ELSE /\ Len(buf) >= 3
               /\ SubSeq(buf, Len(buf) - 1, Len(buf)) = <<opcode.PACK, opcode.DROP>>
               /\ NextIP(buf, 0) = Len(buf) - 2
               /\ vm.pc = 0 => vm.estack = decls.stack
               /\ vm.pc = Len(buf) - 2 =>
                     vm.estack = <<Integer(decls.n)>> \o decls.stack
               /\ vm.pc = Len(buf) - 1 =>
                     vm.estack = <<Array(SubSeq(decls.stack, 1, decls.n))>>
                                 \o Below
       /\ vm.pc = Len(buf) => vm.estack = Below
       /\ vm.state = "halt" => vm.pc = Len(buf)

\* five items were packed and dropped above two that stayed
C23_Witness ==
    /\ Returned /\ vm.state = "halt"
    /\ decls.n = 5 /\ Len(decls.stack) = 7
    /\ buf = <<opcode.PUSH0 + 5, opcode.PACK, opcode.DROP>>
    /\ vm.estack = <<Integer(55), Integer(56)>>

\* three items were dropped one by one above one that stayed
C23_WitnessSingle ==
    /\ Returned /\ vm.state = "halt"
    /\ decls.n = 3 /\ Len(decls.stack) = 4
    /\ buf = <<opcode.DROP, opcode.DROP, opcode.DROP>>
    /\ vm.estack = <<Integer(53)>>

----------------------------------------------------------------------------
(* Pass 1: the operands it writes.                                         *)

\* the long jumps, calls and push-addresses of the emitted program, by
\* address
LongJumpsOf(b) ==
    LET S == InstrStarts(b, 0) IN
    {S[k] : k \in {j \in 1..Len(S) : b[S[j] + 1] \in LongJumps}}

\* the program counter recorded for the label of the instruction at ip
RecordedTarget(ip) == l[Uint16At(prog, ip + 1) + 1]

----------------------------------------------------------------------------
(* Function literals.                                                      *)
(*                                                                         *)
(*   func main() int {                                                     *)
(*       var w int                                                         *)
(*       g := func() int {                  // literal 1                   *)
(*           var w int                                                     *)
(*           g := func() int { ... }        // literal 3, inside literal 1 *)
(*           w = g()                                                       *)
(*           w = runtime.echo1()                                           *)
(*           return 1                                                      *)
(*       }                                                                 *)
(*       w = g()                                                           *)
(*       return 9                                                          *)
(*   }                                                                     *)
(*                                                                         *)
(* Every literal is called where it is defined and asks the host for its   *)
(* own number; the host keeps the trace.                                   *)

\* the function literals of a program
MaxLits == 4

LitW == Ident("w", "varLocal", 0, "int")

LitG == Ident("g", "varLocal", 1, "func")

\* the literal number id with the literals kids in its body
Lit(id, kids) == [id |-> id, kids |-> kids]

\* the literals written in main, each with the literals written in it
LitForests ==
    {<<Lit(1, <<>>)>>,
     <<Lit(1, <<>>), Lit(2, <<>>)>>,
     <<Lit(1, <<Lit(3, <<>>)>>)>>,
     <<Lit(1, <<Lit(3, <<>>)>>), Lit(2, <<>>)>>,
     <<Lit(2, <<>>), Lit(1, <<Lit(3, <<>>)>>)>>,
     <<Lit(1, <<Lit(3, <<Lit(4, <<>>)>>)>>)>>,
     <<Lit(1, <<Lit(3, <<>>), Lit(4, <<>>)>>)>>,
     <<Lit(1, <<Lit(3, <<>>)>>), Lit(2, <<Lit(4, <<>>)>>)>>}

\* g := func() int { ... }; w = g() for every literal of lits, in order
RECURSIVE DefineAndCall(_, _)
DefineAndCall(lits, i) ==
    IF i > Len(lits) THEN <<>>
    ELSE <<AssignStmt(<<LitG>>, "DEFINE",
             <<FuncLit(FuncDecl("lit", 2, 0, <<>>,
                 DefineAndCall(lits[i].kids, 1)
                 \o <<AssignStmt(<<LitW>>, "ASSIGN", <<Echo(lits[i].id)>>),
                      ReturnStmt(<<BasicLit("int", lits[i].id)>>)>>))>>),
           AssignStmt(<<LitW>>, "ASSIGN",
                      <<CallExpr(LitG, <<>>, Signature(0, FALSE), FALSE)>>)>>
         \o DefineAndCall(lits, i + 1)

LitPrograms ==
    {<<[forest |-> fr] @@ FuncDecl("main", 2, 0, <<>>,
                                   DefineAndCall(fr, 1) \o <<Return9>>)>>
       \o EchoDecls(MaxLits) : fr \in LitForests}

InitLit == \E ds \in LitPrograms : Parsed(ds, <<>>, TRUE)

SpecLit == InitLit /\ [][NextRun]_vars

\* what the host is asked by the rules of Go: a literal calls the literals
\* of its body, then asks for its own number
RECURSIVE GoLits(_, _)
GoLits(lits, i) ==
    IF i > Len(lits) THEN <<>>
    ELSE GoLits(lits[i].kids, 1) \o <<FirstEcho + lits[i].id>>
         \o GoLits(lits, i + 1)

\* the numbers of all the literals of lits
RECURSIVE LitIds(_, _)
LitIds(lits, i) ==
    IF i > Len(lits) THEN {}
    ELSE {lits[i].id} \cup LitIds(lits[i].kids, 1) \cup LitIds(lits, i + 1)

\* where the returned bytes ask the host for the number id
CodeOfLit(id) ==
    LET S == InstrStarts(buf, 0) IN
    {S[k] : k \in {j \in 1..Len(S) :
                     /\ buf[S[j] + 1] = opcode.SYSCALL
                     /\ buf[S[j] + 2] = FirstEcho + id}}

\* the push-addresses of the returned bytes
PushAddresses ==
    LET S == InstrStarts(buf, 0) IN
    {S[k] : k \in {j \in 1..Len(S) : buf[S[j] + 1] = opcode.PUSHA}}

LambdasEmitted ==
    /\ \A id \in LitIds(decls[1].forest, 1) :
          /\ Cardinality(CodeOfLit(id)) = 1
          /\ \A ip \in CodeOfLit(id) : ip > funcs[1].End
    /\ \A ip \in LongJumpsOf(prog) :
          prog[ip + 1] = opcode.PUSHA => RecordedTarget(ip) # -1
    /\ \A ip \in PushAddresses :
          /\ JumpTarget(buf, ip) > funcs[1].End
          /\ JumpTarget(buf, ip) < Len(buf)
          /\ buf[JumpTarget(buf, ip) + 1] = opcode.INITSLOT
    /\ vm.state \notin {"fault", "unsupported"}
    /\ Len(vm.trace) <= Len(GoLits(decls[1].forest, 1))
    /\ \A x \in 1..Len(vm.trace) :
          vm.trace[x].api = GoLits(decls[1].forest, 1)[x]
    /\ vm.state = "halt" =>
          /\ Len(vm.trace) = Len(GoLits(decls[1].forest, 1))
          /\ vm.estack = <<Integer(9)>>

\* C25 as stated: every function literal met while a function is emitted,
\* also one inside the body of another literal, is emitted exactly once,
\* behind the end of the enclosing declared function, and its label is set
\* to its first instruction before pass 1 runs: every push-address of a
\* literal addresses the first instruction of that literal, so that calling
\* the literals runs them as Go does.
C25_LambdasEmitted == Returned => LambdasEmitted

\* the literals of main itself, and the literals of literals when the loop
\* over c.lambda produces the entries added while it runs
C25_LambdasProduced ==
    Returned /\ (cg.iterNew \/ \A i \in 1..Len(decls[1].forest) :
                                  decls[1].forest[i].kids = <<>>)
       => LambdasEmitted

\* the loop over c.lambda has skipped the literal 3 of literal 1: literal 3
\* is not in the returned bytes, its label is unset and its push-address
\* leads nowhere
C25_Skipped ==
    /\ Returned /\ ~cg.iterNew
    /\ decls[1].forest = <<Lit(1, <<Lit(3, <<>>)>>)>>
    /\ CodeOfLit(3) = {} /\ Cardinality(CodeOfLit(1)) = 1
    /\ \E ip \in LongJumpsOf(prog) :
          prog[ip + 1] = opcode.PUSHA /\ RecordedTarget(ip) = -1
    /\ vm.state = "fault"

----------------------------------------------------------------------------
(* The initialisation preamble.                                            *)
(*                                                                         *)
(*   var x = 5                                                             *)
(*   var y int                                                             *)
(*   const k = 3                                                           *)
(*   func init() { x = 7 }                                                 *)
(*   func init() { if runtime.ask1() { y = 8 } }                           *)
(*   func main() int { return 9 }                                          *)
(*   func g() int { return 9 }                                             *)
(*                                                                         *)
(* in any order and number, main always among them.                        *)

\* the declarations of a file
MaxFile == 4

\* var a, b = x, y (or without values), and const a = x
GenDecl(tok, names, values) ==
    [node |-> "GenDecl", Tok |-> tok, Names |-> names, Values |-> values]

GlobX == Ident("x", "varGlobal", 0, "int")

GlobY == Ident("y", "varGlobal", 1, "int")

GlobalDecls ==
    {GenDecl("VAR", <<GlobX>>, <<BasicLit("int", 5)>>),
     GenDecl("VAR", <<GlobY>>, <<>>),
     GenDecl("CONST", <<Ident("k", "none", 0, "int")>>, <<BasicLit("int", 3)>>)}

InitFuncs ==
    {FuncDecl("init", 0, 0, <<>>,
              <<AssignStmt(<<GlobX>>, "ASSIGN", <<BasicLit("int", 7)>>)>>),
     FuncDecl("init", 0, 0, <<>>,
              <<IfStmt(AskN(1),
                       <<AssignStmt(<<GlobY>>, "ASSIGN", <<BasicLit("int", 8)>>)>>,
                       NilNode)>>)}

OrdinaryFuncs ==
    {FuncDecl("main", 0, 0, <<>>, <<Return9>>),
     FuncDecl("g", 0, 0, <<>>, <<Return9>>)}

\* the slot of y is 1 only when x is declared before it
Files ==
    {f \in UNION {[1..n -> GlobalDecls \cup InitFuncs \cup OrdinaryFuncs] :
                    n \in 1..MaxFile} :
       /\ \A i, j \in 1..Len(f) : i # j => f[i] # f[j]
       /\ \E i \in 1..Len(f) : f[i].node = "FuncDecl" /\ f[i].name = "main"
       /\ \A j \in 1..Len(f) :
             (f[j].node = "GenDecl" /\ f[j].Names[1] = GlobY)
                => \E i \in 1..(j - 1) :
                      f[i].node = "GenDecl" /\ f[i].Names[1] = GlobX}

InitFile == \E f \in Files : Parsed(f \o HostDecls, <<>>, FALSE)

NextFile == Compile \/ WriteJumps

SpecFile == InitFile /\ [][NextFile]_vars

Compiled == phase \in {"emitted", "done"} /\ cg.Err = "nil" /\ cg.panic = "nil"

HasPreamble == countGlobals(decls, 1) > 0 \/ hasInitFunc(decls)

\* the functions that are not init functions and not system calls
Ordinary ==
    {i \in 1..Len(decls) :
       /\ decls[i].node = "FuncDecl" /\ ~isInitFunc(decls[i])
       /\ ~decls[i].syscall}

\* where the code of the declared function number i starts in c.prog
StartOf(i) ==
    cg.funcs[CHOOSE k \in 1..Len(cg.funcs) :
               cg.funcs[k].name = decls[i].name].rng.Start

\* the addresses of the instructions of c.prog with an opcode of ops
InstrWith(ops) ==
    LET S == InstrStarts(prog, 0) IN
    {S[k] : k \in {j \in 1..Len(S) : prog[S[j] + 1] \in ops}}

\* the first return of c.prog
FirstReturn ==
    CHOOSE a \in InstrWith({opcode.RET}) :
       \A r \in InstrWith({opcode.RET}) : a <= r

\* the slots of the globals, the stores to them and the questions the init
\* functions ask are before the return at address ret, and every ordinary
\* function starts behind it
PreambleEndsAt(ret) ==
    /\ \A a \in InstrWith({opcode.INITSSLOT, opcode.STSFLD0, opcode.STSFLD0 + 1,
                           opcode.SYSCALL}) : a < ret
    /\ countGlobals(decls, 1) > 0 => prog[1] = opcode.INITSSLOT
    /\ prog[ret + 1] = opcode.RET
    /\ \A i \in Ordinary : StartOf(i) > ret
    /\ \E i \in Ordinary : StartOf(i) = ret + 1

\* C26 as stated: when the program has a global initialiser or an init
\* function, the preamble is emitted before any ordinary function and ends in
\* a return, and initEndOffset is the offset of that return
C26_InitEndOffset ==
    Compiled /\ HasPreamble =>
       /\ PreambleEndsAt(FirstReturn)
       /\ cg.initEndOffset = FirstReturn

\* what the code does: the preamble is before the ordinary functions and
\* ends in a return, and initEndOffset is the offset behind that return,
\* where the first ordinary function starts
C26_InitEndBehindReturn ==
    Compiled /\ HasPreamble =>
       /\ PreambleEndsAt(FirstReturn)
       /\ cg.initEndOffset = FirstReturn + 1
       /\ \E i \in Ordinary : StartOf(i) = cg.initEndOffset

\* var x = 5; func init() { x = 7 }; func main() int { return 9 } has been
\* compiled: INITSSLOT 1, PUSH5, STSFLD0, PUSH7, STSFLD0, RET, PUSH9, RET
C26_Reached ==
    /\ Compiled /\ HasPreamble
    /\ prog = <<opcode.INITSSLOT, 1, opcode.PUSH0 + 5, opcode.STSFLD0,
                opcode.PUSH0 + 7, opcode.STSFLD0, opcode.RET,
                opcode.PUSH0 + 9, opcode.RET>>
    /\ FirstReturn = 6
    /\ cg.initEndOffset = 7

----------------------------------------------------------------------------
(* Assignments of several values to several targets.                       *)
(*                                                                         *)
(*   func main(a, b, c int) int { t1, t2 = r1, r2; return 9 }              *)
(*                                                                         *)
(* with t1, t2 among a, b, c and r1, r2 among a, b, c and the constant 4;  *)
(* main is entered with a = 1, b = 2, c = 3.                               *)

\* the variables of main
MaxVars == 3

VarNames == <<"a", "b", "c", "d", "e">>

SwapVar(i) == Ident(VarNames[i], "varArgument", i - 1, "int")

SwapConst == BasicLit("int", MaxVars + 1)

SwapPrograms ==
    {<<FuncDecl("main", 0, MaxVars, <<>>,
                <<AssignStmt(<<SwapVar(t1), SwapVar(t2)>>, "ASSIGN", <<r1, r2>>),
                  Return9>>)>> :
       t1 \in 1..MaxVars, t2 \in 1..MaxVars,
       r1 \in {SwapVar(i) : i \in 1..MaxVars} \cup {SwapConst},
       r2 \in {SwapVar(i) : i \in 1..MaxVars} \cup {SwapConst}}

\* a on top
SwapArgs == [i \in 1..MaxVars |-> Integer(i)]

InitSwap == \E ds \in SwapPrograms : Parsed(ds, SwapArgs, FALSE)

SpecSwap == InitSwap /\ [][NextRun]_vars

TheAssign == decls[1].Body[1]

\* the value of the right-hand side r when the variables hold vals
GoRhs(r, vals) == IF r.node = "Ident" THEN vals[r.i + 1] ELSE Integer(r.tv.val)

\* the variables after the assignment by the rules of Go: the right-hand
\* sides are evaluated first, then the targets are stored from left to right
GoAssigned ==
    LET v1 == GoRhs(TheAssign.Rhs[1], SwapArgs)
        v2 == GoRhs(TheAssign.Rhs[2], SwapArgs)
        s1 == [SwapArgs EXCEPT ![TheAssign.Lhs[1].i + 1] = v1]
    IN [s1 EXCEPT ![TheAssign.Lhs[2].i + 1] = v2]

\* C27 as stated: in t1, t2 = r1, r2 both right-hand sides are evaluated
\* before a target is stored: when main returns, every target holds the
\* value its right-hand side had before the statement
C27_ParallelAssign ==
    Returned =>
       /\ vm.state \notin {"fault", "unsupported"}
       /\ vm.state = "halt" => vm.args = GoAssigned

\* the second right-hand side does not read the first target
NoStoredRead ==
    TheAssign.Rhs[2].node = "Ident" => TheAssign.Rhs[2].i # TheAssign.Lhs[1].i

\* what the code does: right-hand side and store, target by target, which
\* is Go's assignment when no later right-hand side reads an earlier target
C27_NoStoredRead ==
    Returned /\ NoStoredRead =>
       /\ vm.state \notin {"fault", "unsupported"}
       /\ vm.state = "halt" => vm.args = GoAssigned

\* a, b = b, a has run: a = 2 and b = 2
C27_Reached ==
    /\ Returned /\ vm.state = "halt"
    /\ TheAssign.Lhs = <<SwapVar(1), SwapVar(2)>>
    /\ TheAssign.Rhs = <<SwapVar(2), SwapVar(1)>>
    /\ vm.args = <<Integer(2), Integer(2), Integer(3)>>

----------------------------------------------------------------------------
(* The default clause of a switch, wherever it is written.                 *)

\* the marks of the bodies in the trace of the host, in the order they ran
RECURSIVE BodiesRun(_)
BodiesRun(tr) ==
    IF tr = <<>> THEN <<>>
    ELSE (IF Head(tr).api > FirstEcho /\ Head(tr).api <= FirstEcho + MaxClauses
          THEN <<Head(tr).api - FirstEcho>> ELSE <<>>) \o BodiesRun(Tail(tr))

\* the case expressions of all clauses that ask the host
AskingCases ==
    {<<i, j>> \in (1..Len(TheClauses)) \X (1..2) :
       j <= Len(TheClauses[i].List) /\ TheClauses[i].List[j].node = "CallExpr"}

\* the answers of the host to the case expressions
CaseAnswers == SelectSeq(Tail(vm.trace), LAMBDA e : e.api = 2)

\* no case expression of any clause equals the tag: no constant does, and
\* every expression that asks the host was evaluated and answered otherwise
NoCaseEqualsTag ==
    /\ \A i \in 1..Len(TheClauses) : \A j \in 1..Len(TheClauses[i].List) :
          TheClauses[i].List[j].node = "BasicLit" =>
             Integer(TheClauses[i].List[j].tv.val) # vm.trace[1].val
    /\ Len(CaseAnswers) = Cardinality(AskingCases)
    /\ \A x \in 1..Len(CaseAnswers) : CaseAnswers[x].val # vm.trace[1].val

\* the body of default was the first body to run
DefaultChosen ==
    /\ BodiesRun(vm.trace) # <<>>
    /\ BodiesRun(vm.trace)[1] = DefaultOf(TheClauses)

\* C28 as stated: the body of the default clause is chosen only when no
\* case expression of any clause equals the tag, wherever default is
\* written: a clause behind default with a case expression equal to the tag
\* is the one chosen.
C28_DefaultOnlyUnmatched ==
    (Returned /\ vm.state = "halt" /\ DefaultChosen) => NoCaseEqualsTag

\* the same for the switch statements whose default clause is the last
C28_DefaultWrittenLast ==
    (Returned /\ vm.state = "halt" /\ DefaultChosen /\ DefaultLast)
       => NoCaseEqualsTag

\* switch ask1() { default: ...; case 0: ... } was run with the tag 0, and
\* the body of default ran
C28_Reached ==
    /\ Returned /\ vm.state = "halt"
    /\ Len(TheClauses) = 2
    /\ TheClauses[1].List = <<>> /\ TheClauses[2].List = <<BasicLit("int", 0)>>
    /\ vm.trace[1].val = Integer(0)
    /\ BodiesRun(vm.trace) = <<1>>

----------------------------------------------------------------------------
(* If statements with an init statement.                                   *)
(*                                                                         *)
(*   func f() int {                                                        *)
(*       var k int                                                         *)
(*       if v := runtime.echo1(); v == 11 {                                *)
(*           k = runtime.echo2()                                           *)
(*       } else if runtime.ask2() {                                        *)
(*           k = runtime.echo3()                                           *)
(*       }                                                                 *)
(*       k = runtime.echo4()                                               *)
(*       return 9                                                          *)
(*   }                                                                     *)
(*                                                                         *)
(* with and without the init statement and the else branch.  The host      *)
(* answers echo1 with 11, ask1 and ask2 with 0 or 1, and keeps the trace   *)
(* of what it was asked.                                                   *)

\* if init; cond { body } else: the parser's node, Init included
IfInitStmt(init, cond, body, else) ==
    [node |-> "IfStmt", Init |-> init, Cond |-> cond, Body |-> body,
     Else |-> else]

BlockStmt(list) == [node |-> "BlockStmt", List |-> list]

IfInits == {"none", "assign", "define"}

IfConds == {"ask", "not ask", "v"}

\* the else branch: none, a block, an if statement
IfElses == {"none", "block", "if"}

\* v is read by the condition only where the init statement defines it
IfShapes ==
    {sh \in [init : IfInits, cond : IfConds, else : IfElses] :
       sh.cond = "v" => sh.init = "define"}

IfOf(sh) ==
    IfInitStmt(CASE sh.init = "none" -> NilNode
                 [] sh.init = "assign" -> Mark(1)
                 [] sh.init = "define" ->
                      AssignStmt(<<LocV>>, "DEFINE", <<Echo(1)>>),
               CASE sh.cond = "ask" -> AskN(1)
                 [] sh.cond = "not ask" -> UnaryExpr("NOT", AskN(1))
                 [] sh.cond = "v" ->
                      BinaryExpr("EQL", LocV, BasicLit("int", FirstEcho + 1),
                                 "int"),
               <<Mark(2)>>,
               CASE sh.else = "none" -> NilNode
                 [] sh.else = "block" -> BlockStmt(<<Mark(3)>>)
                 [] sh.else = "if" ->
                      IfInitStmt(NilNode, AskN(2), <<Mark(3)>>, NilNode))

IfPrograms ==
    {[shape |-> sh] @@ FuncDecl("f", 2, 0, <<>>,
                                <<IfOf(sh), Mark(4), Return9>>) :
       sh \in IfShapes}

InitIf == \E d \in IfPrograms : Parsed(<<d>> \o LoopDecls, <<>>, TRUE)

SpecIf == InitIf /\ [][NextRun]_vars

TheIf == decls[1].shape

\* the functions the host was asked for, in order
Asked == [x \in 1..Len(vm.trace) |-> vm.trace[x].api]

\* what the host is asked for behind the condition whose value is b, rest
\* being the trace from there
GoBranch(sh, b, rest) ==
    LET apis == [x \in 1..Len(rest) |-> rest[x].api] IN
    IF b THEN apis = <<FirstEcho + 2, FirstEcho + 4>>
    ELSE CASE sh.else = "none" -> apis = <<FirstEcho + 4>>
           [] sh.else = "block" -> apis = <<FirstEcho + 3, FirstEcho + 4>>
           [] sh.else = "if" ->
                /\ rest # <<>> /\ rest[1].api = 2
                /\ Tail(apis) = IF ToBool(rest[1].val)
                                THEN <<FirstEcho + 3, FirstEcho + 4>>
                                ELSE <<FirstEcho + 4>>

\* the run of the if statement by the rules of Go: the init statement
\* once, then the condition, then one branch, then what follows
IfAsGo ==
    LET sh == TheIf
        tr == vm.trace
        n0 == IF sh.init = "none" THEN 0 ELSE 1
        n1 == IF sh.cond = "v" THEN n0 ELSE n0 + 1
    IN /\ Len(tr) >= n1
       /\ n0 = 1 => tr[1].api = FirstEcho + 1
       /\ sh.cond # "v" => tr[n1].api = 1
       /\ GoBranch(sh,
                   CASE sh.cond = "ask" -> ToBool(tr[n1].val)
                     [] sh.cond = "not ask" -> ~ToBool(tr[n1].val)
                     [] sh.cond = "v" ->
                          tr[1].val = Integer(FirstEcho + 1),
                   SubSeq(tr, n1 + 1, Len(tr)))

\* C29 as stated: the init statement of an if statement is executed
\* exactly once, before the condition is evaluated, and then exactly one of
\* the branches runs, as the condition says; f returns its result.
C29_InitThenBranch ==
    (Returned /\ vm.state \notin {"run", "unsupported"}) =>
       /\ vm.state = "halt"
       /\ vm.estack = <<Integer(9)>>
       /\ IfAsGo

\* the same for the if statements that have no init statement
C29_BranchWithoutInit ==
    (Returned /\ vm.state \notin {"run", "unsupported"}
       /\ TheIf.init = "none") =>
       /\ vm.state = "halt"
       /\ vm.estack = <<Integer(9)>>
       /\ IfAsGo

\* if k = runtime.echo1(); runtime.ask1() { ... } else { ... } has run to
\* its end and echo1 was never called
C29_Reached ==
    /\ Returned /\ vm.state = "halt"
    /\ TheIf = [init |-> "assign", cond |-> "ask", else |-> "block"]
    /\ Asked = <<1, FirstEcho + 3, FirstEcho + 4>>

\* an if statement without init statement took its else-if branch
C29_ReachedElseIf ==
    /\ Returned /\ vm.state = "halt"
    /\ TheIf = [init |-> "none", cond |-> "not ask", else |-> "if"]
    /\ Asked = <<1, 2, FirstEcho + 3, FirstEcho + 4>>

----------------------------------------------------------------------------
(* cli/server: startServer from the start of the two servers on, and the   *)
(* goroutine of newGraceContext.                                           *)
(*                                                                         *)
(* frame holds the locals of startServer and what the goroutines share:    *)
(*   shutdownErr  the local of that name                                   *)
(*   stop         whether a signal waits in the channel of capacity 1      *)
(*   waiting      the goroutine of newGraceContext still waits at <-stop   *)
(*   parent       the context of newGraceContext is cancelled              *)
(*   cancelled    cancel() of the context grace was called                 *)
(*   sending      per server goroutine, the error it is blocked sending on *)
(*                errChan, "none" when it is not sending                   *)
(*   reports      per server goroutine, the errors it has come to send     *)
(*   received     the errors startServer received from errChan             *)
(*   signals      the interrupt signals that arrived                       *)
(*   serverErr    what rpcServer.Shutdown() returned                       *)
(* outStream is the sequence of the shutdown calls made, phase the place   *)
(* of startServer ("select", "shutdown", "returned"), err what it returns. *)

\* the errors one server goroutine reports at most
MaxReports == 2

\* the interrupt signals that arrive at most
MaxSignals == 2

Servers == {"serv", "rpcServer"}

ShutdownSequence ==
    <<"serv.Shutdown", "rpcServer.Shutdown", "prometheus.ShutDown",
      "pprof.ShutDown", "chain.Close">>

\* the n-th error of the server goroutine g
ServerError(g, n) == g \o " error " \o ToString(n)

\* errors.Wrap(e, msg), by its message
Wrap(e, msg) == msg \o ": " \o e

\* cli.NewExitError(e, code), by its message and exit code
NewExitError(e, code) == "exit " \o ToString(code) \o ": " \o e

\* grace.Done() is closed: grace was cancelled, or its parent was
GraceDone ==
    phase \in {"select", "shutdown", "returned"}
       /\ (frame.cancelled \/ frame.parent)

InitServer ==
    /\ NoCompiler
    /\ cfg = <<>>
    /\ frame = [shutdownErr |-> "nil", stop |-> FALSE, waiting |-> TRUE,
                parent |-> FALSE, cancelled |-> FALSE,
                sending |-> [g \in Servers |-> "none"],
                reports |-> [g \in Servers |-> 0],
                received |-> <<>>, signals |-> 0, serverErr |-> "nil"]
    /\ outStream = <<>>
    /\ err = "nil"
    /\ phase = "select"

\* a server goroutine comes to errChan <- err and blocks there, the channel
\* having no buffer
Report ==
    /\ phase \in {"select", "shutdown"}
    /\ \E g \in Servers :
          /\ frame.sending[g] = "none"
          /\ frame.reports[g] < MaxReports
          /\ frame' = [frame EXCEPT
                         !.sending[g] = ServerError(g, frame.reports[g] + 1),
                         !.reports[g] = frame.reports[g] + 1]
    /\ UNCHANGED <<cfg, outStream, err, phase>>
    /\ UNCHANGED compilerVars

\* an interrupt signal arrives: it is put into stop unless stop is full
Interrupt ==
    /\ phase \in {"select", "shutdown"}
    /\ frame.signals < MaxSignals
    /\ frame' = [frame EXCEPT !.signals = frame.signals + 1, !.stop = TRUE]
    /\ UNCHANGED <<cfg, outStream, err, phase>>
    /\ UNCHANGED compilerVars

\* the goroutine of newGraceContext: <-stop; cancel()
GraceCancel ==
    /\ phase \in {"select", "shutdown"}
    /\ frame.waiting /\ frame.stop
    /\ frame' = [frame EXCEPT !.stop = FALSE, !.waiting = FALSE,
                              !.parent = TRUE]
    /\ UNCHANGED <<cfg, outStream, err, phase>>
    /\ UNCHANGED compilerVars

\* case err := <-errChan
SelectErr ==
    /\ phase = "select"
    /\ \E g \in Servers :
          /\ frame.sending[g] # "none"
          /\ frame' = [frame EXCEPT
                         !.shutdownErr = Wrap(frame.sending[g],
                                              "Error encountered by server"),
                         !.cancelled = TRUE,
                         !.received = Append(frame.received, frame.sending[g]),
                         !.sending[g] = "none"]
    /\ UNCHANGED <<cfg, outStream, err, phase>>
    /\ UNCHANGED compilerVars

\* case <-grace.Done(), and its first call, serv.Shutdown()
SelectDone ==
    /\ phase = "select"
    /\ GraceDone
    /\ outStream' = Append(outStream, "serv.Shutdown")
    /\ phase' = "shutdown"
    /\ UNCHANGED <<cfg, frame, err>>
    /\ UNCHANGED compilerVars

\* the next call of the case: rpcServer.Shutdown(), which returns nil or
\* an error, prometheus.ShutDown(), pprof.ShutDown(), chain.Close()
ShutdownNext ==
    /\ phase = "shutdown"
    /\ Len(outStream) < Len(ShutdownSequence)
    /\ LET call == ShutdownSequence[Len(outStream) + 1] IN
       /\ outStream' = Append(outStream, call)
       /\ IF call = "rpcServer.Shutdown"
          THEN \E serverErr \in {"nil", "shutdown failed"} :
                 frame' = [frame EXCEPT
                    !.serverErr = serverErr,
                    !.shutdownErr =
                       IF serverErr # "nil"
                       THEN Wrap(serverErr,
                             "Error encountered whilst shutting down server")
                       ELSE frame.shutdownErr]
          ELSE frame' = frame
    /\ UNCHANGED <<cfg, err, phase>>
    /\ UNCHANGED compilerVars

\* break Main, the return and the deferred cancel()
ReturnServer ==
    /\ phase = "shutdown"
    /\ Len(outStream) = Len(ShutdownSequence)
    /\ err' = IF frame.shutdownErr # "nil"
              THEN NewExitError(frame.shutdownErr, 1) ELSE "nil"
    /\ frame' = [frame EXCEPT !.cancelled = TRUE]
    /\ phase' = "returned"
    /\ UNCHANGED <<cfg, outStream>>
    /\ UNCHANGED compilerVars

\* the steps of startServer itself
MainServer == SelectErr \/ SelectDone \/ ShutdownNext \/ ReturnServer

NextServer ==
    Report \/ Interrupt \/ GraceCancel \/ SelectErr \/ SelectDone
       \/ ShutdownNext \/ ReturnServer

\* the goroutine of startServer and that of newGraceContext run when they
\* can; the servers and the signals are free to come or not
SpecServer ==
    InitServer /\ [][NextServer]_vars
       /\ WF_vars(MainServer) /\ WF_vars(GraceCancel)

\* a server goroutine has an error for errChan, or a signal arrived
Triggered ==
    (\E g \in Servers : frame.reports[g] > 0) \/ frame.signals > 0

\* the shutdown calls made are the first ones of the sequence, each once,
\* and all of them were made when startServer returns
ShutdownInOrder ==
    /\ \E n \in 0..Len(ShutdownSequence) :
          outStream = SubSeq(ShutdownSequence, 1, n)
    /\ phase = "returned" => outStream = ShutdownSequence
    /\ outStream # <<>> => (Triggered /\ GraceDone)

\* startServer returns an error that wraps a server error it received
ReturnsServerError ==
    \E x \in 1..Len(frame.received) :
       err = NewExitError(Wrap(frame.received[x],
                               "Error encountered by server"), 1)

\* C30 as stated: once a server goroutine reports an error on the error
\* channel or an interrupt signal arrives, the shutdown sequence (network
\* server, RPC server, Prometheus, pprof, chain close) is eventually
\* executed, exactly once and in that order, and startServer returns; it
\* returns an error whenever a server error was received, and that error
\* is a received server error, also when more errors arrive and when the
\* shutdown of the RPC server fails.
C30_ShutdownAndError ==
    /\ [](ShutdownInOrder
            /\ ((phase = "returned" /\ frame.received # <<>>)
                   => ReturnsServerError))
    /\ (Triggered ~> phase = "returned")

\* the same, the returned error being the server error only when the
\* shutdown of the RPC server did not fail
C30_ShutdownUnlessRpcFails ==
    /\ [](ShutdownInOrder
            /\ ((phase = "returned" /\ frame.received # <<>>
                   /\ frame.serverErr = "nil") => ReturnsServerError)
            /\ ((phase = "returned" /\ frame.received # <<>>) => err # "nil"))
    /\ (Triggered ~> phase = "returned")

\* a server error was received, the shutdown of the RPC server failed, and
\* startServer has returned
C30_Reached ==
    /\ phase = "returned"
    /\ Len(frame.received) = 1
    /\ frame.serverErr = "shutdown failed"
    /\ outStream = ShutdownSequence
    /\ err = NewExitError(Wrap("shutdown failed",
                "Error encountered whilst shutting down server"), 1)

\* two server errors were received, the shutdown succeeded, and the error
\* returned is the second one
C30_ReachedSecondError ==
    /\ phase = "returned"
    /\ Len(frame.received) = 2
    /\ frame.serverErr = "nil"
    /\ err = NewExitError(Wrap(frame.received[2],
                               "Error encountered by server"), 1)

============================================================================
